---- MODULE Spec2Model ----
(***************************************************************************)
(* Model of the geometry core of BrowserCAD (src/js/geometry.js).          *)
(*                                                                         *)
(* Numbers.  The code computes in IEEE doubles; the model computes in      *)
(* integers on inputs for which every value the code computes is an exact  *)
(* integer (or an exact fraction kept as numerator and denominator).       *)
(* Points that differ lie at least one unit apart, so the code's epsilons  *)
(* (1e-10, 1e-3) separate equal from different values.                     *)
(* Distances are compared through their squares where no length is needed. *)
(* Angles are counted in units of pi/4, so 2*pi is 8 units.                *)
(*                                                                         *)
(* The module holds one state machine per part of the core; each has its   *)
(* own variables and its own specification (SpecQT, ...), and leaves the   *)
(* variables of the other parts unchanged.                                 *)
(***************************************************************************)
EXTENDS Integers, Naturals, Sequences, FiniteSets, TLC

VARIABLES
    tree,        \* the root QuadTree node (boundary, capacity, entities, children)
    accepted,    \* ids of the entities whose insert returned true since the last clear
    qtFailed,    \* some insert ended in RangeError (call stack exhausted)
    qtLast,      \* the last QuadTree call and what it returned
    geo          \* the last call of a Geometry function: its arguments and its result

vars == <<tree, accepted, qtFailed, qtLast, geo>>

----------------------------------------------------------------------------
(* Small helpers of the model *)

Min(a, b) == IF a < b THEN a ELSE b

Max(a, b) == IF a > b THEN a ELSE b

Abs(a) == IF a < 0 THEN -a ELSE a

SeqToSet(s) == {s[i] : i \in 1..Len(s)}

RECURSIVE Concat(_)
\* the concatenation of a list of lists (push(...list) in a loop)
Concat(ss) == IF ss = <<>> THEN <<>> ELSE Head(ss) \o Concat(Tail(ss))

Pt(x, y) == [x |-> x, y |-> y]

----------------------------------------------------------------------------
(* Spatial index: Rectangle, Line.getBoundingBox, QuadTree *)

\* Frames the engine's call stack holds before it throws RangeError.
MaxStack == 8

Rectangle(x, y, width, height) == [x |-> x, y |-> y, width |-> width, height |-> height]

\* Rectangle.intersects
RectIntersects(this, range) ==
    ~(  range.x > this.x + this.width
     \/ range.x + range.width < this.x
     \/ range.y > this.y + this.height
     \/ range.y + range.height < this.y)

\* Line.getBoundingBox
getBoundingBox(entity) ==
    [minX |-> Min(entity.p1.x, entity.p2.x),
     minY |-> Min(entity.p1.y, entity.p2.y),
     maxX |-> Max(entity.p1.x, entity.p2.x),
     maxY |-> Max(entity.p1.y, entity.p2.y)]

\* faulty variant: the right and bottom edges compared strictly
bboxIntersectsStrict(bbox, rect) ==
    ~(  bbox.minX >= rect.x + rect.width
     \/ bbox.maxX < rect.x
     \/ bbox.minY >= rect.y + rect.height
     \/ bbox.maxY < rect.y)

_bboxIntersects(bbox, rect) ==
    ~(  bbox.minX > rect.x + rect.width
     \/ bbox.maxX < rect.x
     \/ bbox.minY > rect.y + rect.height
     \/ bbox.maxY < rect.y)

\* QuadTree.constructor
NewQuadTree(boundary, capacity) ==
    [boundary |-> boundary, capacity |-> capacity, entities |-> <<>>,
     divided |-> FALSE, children |-> <<>>]

\* width / 2: exact on the widths the model reaches
Half(w) == w \div 2

\* QuadTree.subdivide: children in the order northwest, northeast, southwest, southeast
subdivide(this) ==
    LET x == this.boundary.x
        y == this.boundary.y
        halfW == Half(this.boundary.width)
        halfH == Half(this.boundary.height)
    IN  [this EXCEPT
            !.children =
                << NewQuadTree(Rectangle(x, y, halfW, halfH), this.capacity),
                   NewQuadTree(Rectangle(x + halfW, y, halfW, halfH), this.capacity),
                   NewQuadTree(Rectangle(x, y + halfH, halfW, halfH), this.capacity),
                   NewQuadTree(Rectangle(x + halfW, y + halfH, halfW, halfH), this.capacity) >>,
            !.divided = TRUE]

\* The result of a call: the node after it, the value returned, and whether it
\* ended in RangeError (the rest of the call is then not executed).
Ret(node, ret, thrown) == [node |-> node, ret |-> ret, thrown |-> thrown]

RECURSIVE insert(_, _, _), _insertIntoChildren(_, _, _), insertChild(_, _, _, _, _), reinsert(_, _, _, _)

\* QuadTree.insert; depth is the number of frames on the stack, this one included
insert(this, entity, depth) ==
    IF depth > MaxStack THEN Ret(this, FALSE, TRUE)
    ELSE
    LET bbox == getBoundingBox(entity) IN
    IF ~_bboxIntersects(bbox, this.boundary) THEN Ret(this, FALSE, FALSE)
    ELSE IF ~this.divided /\ Len(this.entities) < this.capacity
    THEN Ret([this EXCEPT !.entities = Append(@, entity)], TRUE, FALSE)
    ELSE
    LET r1 == IF ~this.divided
              THEN reinsert([subdivide(this) EXCEPT !.entities = <<>>], this.entities, 1, depth)
              ELSE Ret(this, TRUE, FALSE)
    IN  IF r1.thrown THEN r1 ELSE _insertIntoChildren(r1.node, entity, depth + 1)

\* the loop "for (const item of existing) this._insertIntoChildren(item)"
reinsert(this, existing, i, depth) ==
    IF i > Len(existing) THEN Ret(this, TRUE, FALSE)
    ELSE LET r == _insertIntoChildren(this, existing[i], depth + 1)
         IN  IF r.thrown THEN r ELSE reinsert(r.node, existing, i + 1, depth)

\* one "if (this._bboxIntersects(bbox, child.boundary)) { child.insert(entity); inserted = true; }"
\* and the ones after it; acc is the value of "inserted" so far
insertChild(this, entity, k, acc, depth) ==
    IF k > 4 THEN Ret(this, acc, FALSE)
    ELSE IF ~_bboxIntersects(getBoundingBox(entity), this.children[k].boundary)
    THEN insertChild(this, entity, k + 1, acc, depth)
    ELSE LET r == insert(this.children[k], entity, depth + 1)
             t == [this EXCEPT !.children[k] = r.node]
         IN  IF r.thrown THEN Ret(t, FALSE, TRUE)
             ELSE insertChild(t, entity, k + 1, TRUE, depth)

\* QuadTree._insertIntoChildren
_insertIntoChildren(this, entity, depth) ==
    IF depth > MaxStack THEN Ret(this, FALSE, TRUE)
    ELSE insertChild(this, entity, 1, FALSE, depth)

\* The state of a retrieve: the list out and the set seen.
RECURSIVE retrieve(_, _, _, _), retrieveOwn(_, _, _, _, _), retrieveChildren(_, _, _, _, _)

\* the loop over this.entities of retrieve
retrieveOwn(this, range, i, out, seen) ==
    IF i > Len(this.entities) THEN [out |-> out, seen |-> seen]
    ELSE LET entity == this.entities[i]
             take == _bboxIntersects(getBoundingBox(entity), range) /\ entity.id \notin seen
         IN  retrieveOwn(this, range, i + 1,
                         IF take THEN Append(out, entity) ELSE out,
                         IF take THEN seen \cup {entity.id} ELSE seen)

\* the four recursive calls of retrieve
retrieveChildren(this, range, k, out, seen) ==
    IF k > 4 THEN [out |-> out, seen |-> seen]
    ELSE LET r == retrieve(this.children[k], range, out, seen)
         IN  retrieveChildren(this, range, k + 1, r.out, r.seen)

\* QuadTree.retrieve(range, out, seen) with a seen-set
retrieve(this, range, out, seen) ==
    IF ~RectIntersects(this.boundary, range) THEN [out |-> out, seen |-> seen]
    ELSE LET own == retrieveOwn(this, range, 1, out, seen)
         IN  IF this.divided
             THEN retrieveChildren(this, range, 1, own.out, own.seen)
             ELSE own

\* faulty variant: the entities are dropped, the children are kept
clearEntitiesOnly(this) == [this EXCEPT !.entities = <<>>]

\* QuadTree.clear
clear(this) == [this EXCEPT !.entities = <<>>, !.children = <<>>, !.divided = FALSE]

\* The entities offered to the index: Line objects (two of them with the same
\* bounding box, one straddling the right edge of the root, one outside it).
QTEntities ==
    { [id |-> 1, type |-> "line", p1 |-> Pt(2, 2),   p2 |-> Pt(6, 6)],
      [id |-> 2, type |-> "line", p1 |-> Pt(6, 2),   p2 |-> Pt(2, 6)],
      [id |-> 3, type |-> "line", p1 |-> Pt(4, 4),   p2 |-> Pt(5, 4)],
      [id |-> 4, type |-> "line", p1 |-> Pt(20, 20), p2 |-> Pt(28, 24)],
      [id |-> 5, type |-> "line", p1 |-> Pt(28, 4),  p2 |-> Pt(36, 6)],
      [id |-> 6, type |-> "line", p1 |-> Pt(40, 40), p2 |-> Pt(44, 44)],
      [id |-> 7, type |-> "line", p1 |-> Pt(12, 10), p2 |-> Pt(12, 30)] }

QTEntity(i) == CHOOSE e \in QTEntities : e.id = i

QTBoundaries == { Rectangle(0, 0, 32, 32) }

QTCapacities == {1, 2}

QTRanges ==
    { Rectangle(0, 0, 32, 32), Rectangle(0, 0, 3, 3), Rectangle(5, 5, 20, 20),
      Rectangle(6, 6, 0, 0),   Rectangle(34, 0, 4, 8), Rectangle(16, 16, 16, 16),
      Rectangle(7, 7, 8, 8),   Rectangle(38, 38, 4, 4) }

InitGeoIdle == geo = [fn |-> "none"]

InitQT ==
    /\ \E b \in QTBoundaries, c \in QTCapacities : tree = NewQuadTree(b, c)
    /\ accepted = {}
    /\ qtFailed = FALSE
    /\ qtLast = [op |-> "new"]
    /\ InitGeoIdle

\* tree.insert(entity) for an entity not offered before
QTInsert(entity) ==
    /\ entity.id \notin accepted
    /\ LET r == insert(tree, entity, 1)
       IN  /\ tree' = r.node
           /\ accepted' = IF r.ret /\ ~r.thrown THEN accepted \cup {entity.id} ELSE accepted
           /\ qtFailed' = (qtFailed \/ r.thrown)
           /\ qtLast' = [op |-> "insert", entity |-> entity.id, ret |-> r.ret, thrown |-> r.thrown]
    /\ UNCHANGED geo

\* tree.retrieve(range, [], new Set())
QTRetrieve(range) ==
    /\ qtLast' = [op |-> "retrieve", range |-> range,
                  out |-> retrieve(tree, range, <<>>, {}).out]
    /\ UNCHANGED <<tree, accepted, qtFailed, geo>>

\* tree.clear()
QTClear ==
    /\ tree.divided \/ tree.entities # <<>>
    /\ tree' = clear(tree)
    /\ accepted' = {}
    /\ qtLast' = [op |-> "clear"]
    /\ UNCHANGED <<qtFailed, geo>>

NextQT ==
    \/ \E e \in QTEntities : QTInsert(e)
    \/ \E r \in QTRanges : QTRetrieve(r)
    \/ QTClear

SpecQT == InitQT /\ [][NextQT]_vars

\* The brute-force scan retrieve is measured against: the accepted entities whose bounding box
\* intersects the range.
BruteForce(range) ==
    {i \in accepted : _bboxIntersects(getBoundingBox(QTEntity(i)), range)}

NoDuplicates(s) == \A i, j \in 1..Len(s) : s[i] = s[j] => i = j

OutIds(s) == {s[i].id : i \in 1..Len(s)}

\* C1 (as claimed): after inserts that all completed, retrieve(range, [], seen)
\* returns exactly the entities whose bounding box intersects range, each once.
C1_RetrieveEqualsBruteForce ==
    (qtLast.op = "retrieve" /\ ~qtFailed) =>
        /\ OutIds(qtLast.out) = BruteForce(qtLast.range)
        /\ NoDuplicates(qtLast.out)

\* C2 (as claimed): every insert completes; none exhausts the call stack.
C2_InsertCompletes == qtLast.op = "insert" => ~qtLast.thrown

BBoxesOverlap(a, b) ==
    /\ a.minX <= b.maxX /\ b.minX <= a.maxX
    /\ a.minY <= b.maxY /\ b.minY <= a.maxY

\* Soundness of the stack bound: within the entities offered, the first insert to
\* exhaust MaxStack frames is one a deeper stack would exhaust too, because more
\* than capacity entities share a point (pairwise overlapping boxes have a common
\* point), so that no subdivision separates them.
QTStackBoundSound ==
    [][ (~qtFailed /\ qtFailed') =>
          \E S \in SUBSET (accepted \cup {qtLast'.entity}) :
             /\ Cardinality(S) > tree.capacity
             /\ \A i, j \in S :
                   BBoxesOverlap(getBoundingBox(QTEntity(i)), getBoundingBox(QTEntity(j))) ]_vars

----------------------------------------------------------------------------
(* Numeric utility library (Utils, js/utils.js): not among the sources; modelled
   from its use in geometry.js and its description in the specification. *)

Null == [type |-> "null"]

\* A returned array, told from null and from an entity by its tag as typeof and
\* Array.isArray tell them in the program
Array(items) == [type |-> "array", items |-> items]

\* a / b for a division the inputs make exact; it has no value on any other
DivExact(a, b) ==
    LET n == IF b < 0 THEN -a ELSE a
        m == IF b < 0 THEN -b ELSE b
    IN  IF n % m = 0 THEN n \div m ELSE CHOOSE q \in {} : q * b = a

\* Math.sqrt on the perfect squares the inputs produce, by bisection between lo and hi
\* (lo * lo <= n < hi * hi); it has no value on any other number.  46340 is the largest
\* root of a 32-bit number.
RECURSIVE SqrtFrom(_, _, _)
SqrtFrom(n, lo, hi) ==
    IF hi - lo <= 1 THEN lo
    ELSE LET mid == (lo + hi) \div 2
         IN  IF mid * mid <= n THEN SqrtFrom(n, mid, hi) ELSE SqrtFrom(n, lo, mid)

Sqrt(n) ==
    LET r == SqrtFrom(n, 0, Min(n, 46339) + 1)
    IN  IF r * r = n THEN r ELSE CHOOSE q \in {} : q * q = n

\* Utils.vector(a, b)
Vector(a, b) == Pt(b.x - a.x, b.y - a.y)

\* Utils.dot
Dot(u, v) == u.x * v.x + u.y * v.y

\* The square of Utils.dist(a, b)
Dist2(a, b) == (b.x - a.x) * (b.x - a.x) + (b.y - a.y) * (b.y - a.y)

\* Utils.dist(a, b), for points whose distance is a whole number
Dist(a, b) == Sqrt(Dist2(a, b))

\* Utils.midpoint
Midpoint(a, b) == Pt(DivExact(a.x + b.x, 2), DivExact(a.y + b.y, 2))

\* Utils.uniquePoints: the first occurrence of every point, in order
RECURSIVE UniquePoints(_)
UniquePoints(pts) ==
    IF pts = <<>> THEN <<>>
    ELSE LET front == UniquePoints(SubSeq(pts, 1, Len(pts) - 1))
             last == pts[Len(pts)]
         IN  IF last \in SeqToSet(front) THEN front ELSE Append(front, last)

\* Array.prototype.sort (stable) of pts under the comparator
\* (a, b) => Utils.dist(origin, a) - Utils.dist(origin, b)
RECURSIVE SortByDist(_, _)
SortByDist(origin, pts) ==
    IF pts = <<>> THEN <<>>
    ELSE LET front == SortByDist(origin, SubSeq(pts, 1, Len(pts) - 1))
             last == pts[Len(pts)]
             k == Cardinality({i \in 1..Len(front) : Dist2(origin, front[i]) <= Dist2(origin, last)})
         IN  SubSeq(front, 1, k) \o <<last>> \o SubSeq(front, k + 1, Len(front))

----------------------------------------------------------------------------
(* Primitive intersections *)

\* faulty variant: the parameter is applied backwards from p1
lineLineIntersectionBackward(p1, p2, p3, p4) ==
    LET d == (p2.x - p1.x) * (p4.y - p3.y) - (p2.y - p1.y) * (p4.x - p3.x)
        tn == (p3.x - p1.x) * (p4.y - p3.y) - (p3.y - p1.y) * (p4.x - p3.x)
    IN  IF d = 0 THEN Null
        ELSE Pt(p1.x - DivExact(tn * (p2.x - p1.x), d),
                p1.y - DivExact(tn * (p2.y - p1.y), d))

\* Geometry.lineLineIntersection (infinite lines); |d| < 1e-10 is d = 0 on integers
lineLineIntersection(p1, p2, p3, p4) ==
    LET d == (p2.x - p1.x) * (p4.y - p3.y) - (p2.y - p1.y) * (p4.x - p3.x)
        tn == (p3.x - p1.x) * (p4.y - p3.y) - (p3.y - p1.y) * (p4.x - p3.x)
    IN  IF d = 0 THEN Null
        ELSE Pt(p1.x + DivExact(tn * (p2.x - p1.x), d),
                p1.y + DivExact(tn * (p2.y - p1.y), d))

\* 0 <= n/d <= 1
InUnit(n, d) == IF d > 0 THEN 0 <= n /\ n <= d ELSE d <= n /\ n <= 0

\* Geometry.segmentSegmentIntersection (bounded)
segmentSegmentIntersection(p1, p2, p3, p4) ==
    LET d == (p2.x - p1.x) * (p4.y - p3.y) - (p2.y - p1.y) * (p4.x - p3.x)
        tn == (p3.x - p1.x) * (p4.y - p3.y) - (p3.y - p1.y) * (p4.x - p3.x)
        un == (p3.x - p1.x) * (p2.y - p1.y) - (p3.y - p1.y) * (p2.x - p1.x)
    IN  IF d = 0 THEN Null
        ELSE IF InUnit(tn, d) /\ InUnit(un, d)
        THEN Pt(p1.x + DivExact(tn * (p2.x - p1.x), d),
                p1.y + DivExact(tn * (p2.y - p1.y), d))
        ELSE Null

\* Geometry.lineCircleIntersection: t1 = (-b - sqrt(disc)) / 2a, t2 = (-b + sqrt(disc)) / 2a,
\* each kept as a numerator over 2a (a > 0 on the lines offered)
lineCircleIntersection(lineP1, lineP2, center, radius) ==
    LET d == Vector(lineP1, lineP2)
        f == Vector(center, lineP1)
        a == Dot(d, d)
        b == 2 * Dot(f, d)
        c == Dot(f, f) - radius * radius
        discriminant == b * b - 4 * a * c
    IN  IF discriminant < 0 THEN <<>>
        ELSE LET root == Sqrt(discriminant)
                 t1n == -b - root
                 t2n == -b + root
                 at(tn) == Pt(lineP1.x + DivExact(tn * d.x, 2 * a),
                              lineP1.y + DivExact(tn * d.y, 2 * a))
             IN  (IF InUnit(t1n, 2 * a) THEN <<at(t1n)>> ELSE <<>>)
                 \o (IF InUnit(t2n, 2 * a) /\ t2n # t1n THEN <<at(t2n)>> ELSE <<>>)

----------------------------------------------------------------------------
(* Segments of an entity *)

LineSeg(p1, p2) == [type |-> "line", p1 |-> p1, p2 |-> p2]

\* faulty variant: the polyline loop runs to i < points.length, closing the polyline
getEntitySegmentsClosed(entity) ==
    IF entity.type = "polyline"
    THEN [i \in 1..Len(entity.points) |->
            LineSeg(entity.points[i], entity.points[(i % Len(entity.points)) + 1])]
    ELSE IF entity.type = "line" THEN <<LineSeg(entity.p1, entity.p2)>>
    ELSE <<>>

\* Geometry.getEntitySegments
getEntitySegments(entity) ==
    CASE entity.type = "line" -> <<LineSeg(entity.p1, entity.p2)>>
      [] entity.type = "polyline" ->
            [i \in 1..(Len(entity.points) - 1) |-> LineSeg(entity.points[i], entity.points[i + 1])]
      [] entity.type = "rect" ->
            LET p1 == entity.p1
                p2 == entity.p2
            IN  << LineSeg(Pt(p1.x, p1.y), Pt(p2.x, p1.y)),
                   LineSeg(Pt(p2.x, p1.y), Pt(p2.x, p2.y)),
                   LineSeg(Pt(p2.x, p2.y), Pt(p1.x, p2.y)),
                   LineSeg(Pt(p1.x, p2.y), Pt(p1.x, p1.y)) >>
      [] entity.type = "circle" -> <<[type |-> "circle", center |-> entity.center, r |-> entity.r]>>
      [] entity.type = "arc" ->
            <<[type |-> "arc", center |-> entity.center, r |-> entity.r,
               start |-> entity.start, end |-> entity.end]>>
      [] entity.type = "ellipse" ->
            <<[type |-> "ellipse", center |-> entity.center, rx |-> entity.rx,
               ry |-> entity.ry, rotation |-> entity.rotation]>>
      [] OTHER -> <<>>

----------------------------------------------------------------------------
(* Arc membership tests.  Angles are whole multiples of pi/4. *)

\* Math.PI * 2, in units of pi/4
TwoPi == 8

\* Math.atan2(dy, dx) for a vector along an axis or a diagonal: a value in (-pi, pi]
Atan2(dy, dx) ==
    CASE dx > 0 /\ dy = 0 -> 0
      [] dx > 0 /\ dy = dx -> 1
      [] dx = 0 /\ dy > 0 -> 2
      [] dx < 0 /\ dy = -dx -> 3
      [] dx < 0 /\ dy = 0 -> 4
      [] dx < 0 /\ dy = dx -> -3
      [] dx = 0 /\ dy < 0 -> -2
      [] dx > 0 /\ dy = -dx -> -1
      [] dx = 0 /\ dy = 0 -> 0

\* The JavaScript remainder a % n (n > 0): it has the sign of a
JSRem(a, n) == IF a >= 0 THEN a % n ELSE -((-a) % n)

\* ((a % 2pi) + 2pi) % 2pi
Normalize(a) == JSRem(JSRem(a, TwoPi) + TwoPi, TwoPi)

\* while (a < 0) a += Math.PI * 2
RECURSIVE WhileNegative(_)
WhileNegative(a) == IF a < 0 THEN WhileNegative(a + TwoPi) ELSE a

\* Geometry.isPointOnArc
isPointOnArc(point, arc) ==
    LET angle == Atan2(point.y - arc.center.y, point.x - arc.center.x)
        start == WhileNegative(arc.start)
        end == WhileNegative(arc.end)
        a == WhileNegative(angle)
    IN  IF start <= end THEN a >= start /\ a <= end
        ELSE a >= start \/ a <= end

\* Geometry.isAngleOnArc
isAngleOnArc(angle0, arc) ==
    LET start == Normalize(arc.start)
        end == Normalize(arc.end)
        angle == Normalize(angle0)
    IN  IF start <= end THEN angle >= start /\ angle <= end
        ELSE angle >= start \/ angle <= end

\* Geometry._angleInArc
_angleInArc(angle, start, end) ==
    LET a == Normalize(angle)
        s == Normalize(start)
        e == Normalize(end)
    IN  IF s <= e THEN a >= s /\ a <= e
        ELSE a >= s \/ a <= e

Arc(center, r, start, end) ==
    [type |-> "arc", center |-> center, r |-> r, start |-> start, end |-> end]

\* Idle values of the spatial index, for the specifications of the pure functions
InitQTIdle ==
    /\ tree = <<>>
    /\ accepted = {}
    /\ qtFailed = FALSE
    /\ qtLast = [op |-> "none"]

QTIdle == UNCHANGED <<tree, accepted, qtFailed, qtLast>>

\* Points on the circle of radius 2 (axes) or 2*sqrt(2) (diagonals) about the origin
ArcPoints ==
    {Pt(2, 0), Pt(2, 2), Pt(0, 2), Pt(-2, 2), Pt(-2, 0), Pt(-2, -2), Pt(0, -2), Pt(2, -2)}

ArcAngles == (0 - TwoPi) .. (TwoPi - 1)

Turns == {-1, 0, 1}

\* The arguments of one test: a point about the origin, an angle (the point's, plus
\* ka whole turns), an arc's start and end, and the whole turns ks, ke added to them
InitArc ==
    /\ InitQTIdle
    /\ \E p \in ArcPoints, s, e \in ArcAngles, ka, ks, ke \in Turns :
          geo = [fn |-> "args", point |-> p, angle |-> Atan2(p.y, p.x) + ka * TwoPi,
                 start |-> s, end |-> e, ks |-> ks, ke |-> ke]

ArcOf(g) == Arc(Pt(0, 0), 2, g.start, g.end)

ShiftedArcOf(g) == Arc(Pt(0, 0), 2, g.start + g.ks * TwoPi, g.end + g.ke * TwoPi)

Returned(g, fn, result) == [g EXCEPT !.fn = fn] @@ [result |-> result]

\* isPointOnArc(point, arc) on the arc and on the arc with the whole turns added
CallIsPointOnArc ==
    /\ geo.fn = "args"
    /\ geo' = Returned(geo, "isPointOnArc", isPointOnArc(geo.point, ArcOf(geo)))
              @@ [shifted |-> isPointOnArc(geo.point, ShiftedArcOf(geo))]
    /\ QTIdle

CallIsAngleOnArc ==
    /\ geo.fn = "args"
    /\ geo' = Returned(geo, "isAngleOnArc", isAngleOnArc(geo.angle, ArcOf(geo)))
              @@ [shifted |-> isAngleOnArc(geo.angle, ShiftedArcOf(geo))]
    /\ QTIdle

CallAngleInArc ==
    /\ geo.fn = "args"
    /\ geo' = Returned(geo, "_angleInArc", _angleInArc(geo.angle, geo.start, geo.end))
              @@ [shifted |-> _angleInArc(geo.angle, geo.start + geo.ks * TwoPi,
                                          geo.end + geo.ke * TwoPi)]
    /\ QTIdle

NextArc == CallIsPointOnArc \/ CallIsAngleOnArc \/ CallAngleInArc

SpecArc == InitArc /\ [][NextArc]_vars

ArcTests == {"isPointOnArc", "isAngleOnArc", "_angleInArc"}

\* C9 (as claimed): every arc-membership test gives the same answer when a
\* multiple of 2*pi is added to the arc's start or end.
C9_ArcTestsPeriodic == geo.fn \in ArcTests => geo.result = geo.shifted

\* What holds of the code: the two tests that reduce modulo 2*pi are periodic.
ArcModuloTestsPeriodic ==
    geo.fn \in {"isAngleOnArc", "_angleInArc"} => geo.result = geo.shifted

----------------------------------------------------------------------------
(* getEntitySegments on every entity kind *)

SegPoints == {Pt(0, 0), Pt(4, 0), Pt(4, 2), Pt(0, 2)}

\* Point lists of at most 3 points; a polyline with none is the freshly made one
PointLists == UNION {[1..n -> SegPoints] : n \in 0..3}

SegEntities ==
    {[type |-> "line", p1 |-> a, p2 |-> b] : a, b \in SegPoints}
    \cup {[type |-> "rect", p1 |-> a, p2 |-> b] : a, b \in SegPoints}
    \cup {[type |-> "polyline", points |-> ps] : ps \in PointLists}
    \cup {[type |-> "circle", center |-> a, r |-> r] : a \in SegPoints, r \in {1, 2}}
    \cup {Arc(a, 2, s, e) : a \in {Pt(0, 0)}, s, e \in 0..3}
    \cup {[type |-> "ellipse", center |-> a, rx |-> 2, ry |-> 1, rotation |-> 0] : a \in SegPoints}
    \cup {[type |-> "text", position |-> a, text |-> "A", height |-> 2] : a \in SegPoints}
    \cup {[type |-> "point", position |-> a] : a \in SegPoints}
    \cup {[type |-> "donut", center |-> a, innerRadius |-> 1, outerRadius |-> 2] : a \in SegPoints}

InitSeg ==
    /\ InitQTIdle
    /\ \E e \in SegEntities : geo = [fn |-> "args", entity |-> e]

CallGetEntitySegments ==
    /\ geo.fn = "args"
    /\ geo' = Returned(geo, "getEntitySegments", getEntitySegments(geo.entity))
    /\ QTIdle

NextSeg == CallGetEntitySegments

SpecSeg == InitSeg /\ [][NextSeg]_vars

AllOfType(segs, t) == \A i \in 1..Len(segs) : segs[i].type = t

\* The segment counts of the kinds other than ellipse
SegmentsOfOtherKinds ==
    LET e == geo.entity
        segs == geo.result
    IN  CASE e.type = "line" -> Len(segs) = 1 /\ AllOfType(segs, "line")
          [] e.type = "rect" -> Len(segs) = 4 /\ AllOfType(segs, "line")
          [] e.type = "polyline" ->
                /\ Len(e.points) >= 1 => Len(segs) = Len(e.points) - 1
                /\ Len(e.points) = 0 => Len(segs) = 0
                /\ AllOfType(segs, "line")
                /\ \A i \in 1..Len(segs) : segs[i].p1 = e.points[i] /\ segs[i].p2 = e.points[i + 1]
          [] e.type = "circle" -> Len(segs) = 1 /\ AllOfType(segs, "circle")
          [] e.type = "arc" -> Len(segs) = 1 /\ AllOfType(segs, "arc")
          [] e.type = "ellipse" -> TRUE
          [] OTHER -> segs = <<>>

----------------------------------------------------------------------------
(* Intersections of two entities *)

\* Geometry.circleCircleIntersection.  With d2 = d*d and A = r1^2 - r2^2 + d2 the code's
\* a/d is A/(2 d2) and h/d is sqrt(4 r1^2 d2 - A^2)/(2 d2); the tests on d compare squares.
circleCircleIntersection(c1, r1, c2, r2) ==
    LET d2 == Dist2(c1, c2)
        A == r1 * r1 - r2 * r2 + d2
        S == Sqrt(4 * r1 * r1 * d2 - A * A)
        ex == c2.x - c1.x
        ey == c2.y - c1.y
    IN  IF d2 > (r1 + r2) * (r1 + r2) THEN <<>>
        ELSE IF d2 < (r1 - r2) * (r1 - r2) THEN <<>>
        ELSE IF d2 = 0 /\ r1 = r2 THEN <<>>
        ELSE << Pt(c1.x + DivExact(A * ex + S * ey, 2 * d2), c1.y + DivExact(A * ey - S * ex, 2 * d2)),
                Pt(c1.x + DivExact(A * ex - S * ey, 2 * d2), c1.y + DivExact(A * ey + S * ex, 2 * d2)) >>

FilterOnArc(pts, arc) == SelectSeq(pts, LAMBDA q : isPointOnArc(q, arc))

\* Geometry.segmentIntersection
segmentIntersection(s1, s2) ==
    CASE s1.type = "line" /\ s2.type = "line" ->
            LET pt == segmentSegmentIntersection(s1.p1, s1.p2, s2.p1, s2.p2)
            IN  IF pt # Null THEN <<pt>> ELSE <<>>
      [] s1.type = "line" /\ s2.type = "circle" ->
            lineCircleIntersection(s1.p1, s1.p2, s2.center, s2.r)
      [] s1.type = "circle" /\ s2.type = "line" ->
            lineCircleIntersection(s2.p1, s2.p2, s1.center, s1.r)
      [] s1.type = "circle" /\ s2.type = "circle" ->
            circleCircleIntersection(s1.center, s1.r, s2.center, s2.r)
      [] s1.type = "line" /\ s2.type = "arc" ->
            FilterOnArc(lineCircleIntersection(s1.p1, s1.p2, s2.center, s2.r), s2)
      [] s1.type = "arc" /\ s2.type = "line" ->
            FilterOnArc(lineCircleIntersection(s2.p1, s2.p2, s1.center, s1.r), s1)
      [] OTHER -> <<>>

\* Geometry.findIntersections
findIntersections(entity1, entity2) ==
    LET segs1 == getEntitySegments(entity1)
        segs2 == getEntitySegments(entity2)
    IN  UniquePoints(Concat([i \in 1..Len(segs1) |->
                Concat([j \in 1..Len(segs2) |-> segmentIntersection(segs1[i], segs2[j])])]))

----------------------------------------------------------------------------
(* trimLine *)

Line(id, p1, p2) == [id |-> id, type |-> "line", p1 |-> p1, p2 |-> p2]

\* The first part of trimLine: the intersection points with every entity of another id
trimCutsRaw(entity, allEntities) ==
    Concat([k \in 1..Len(allEntities) |->
        IF allEntities[k].id = entity.id THEN <<>>
        ELSE findIntersections(entity, allEntities[k])])

\* faulty variant: the cut points are not sorted along the line
trimCutsUnsorted(entity, raw) == UniquePoints(raw \o <<entity.p1, entity.p2>>)

\* cuts.push(p1, p2); cuts.sort(by distance from p1); cuts = Utils.uniquePoints(cuts)
trimCuts(entity, raw) == UniquePoints(SortByDist(entity.p1, raw \o <<entity.p1, entity.p2>>))

\* 4 * Utils.dist(clickPoint, Utils.midpoint(a, b))^2
MidDist(clickPoint, a, b) ==
    Dist2(Pt(2 * clickPoint.x, 2 * clickPoint.y), Pt(a.x + b.x, a.y + b.y))

\* faulty variant: "d <= minDist", the last of the nearest sub-intervals is the clicked one
clickedIdxLast(cuts, clickPoint) ==
    IF Len(cuts) < 2 THEN -1
    ELSE CHOOSE i \in 1..(Len(cuts) - 1) :
            /\ \A j \in 1..(Len(cuts) - 1) :
                  MidDist(clickPoint, cuts[i], cuts[i + 1]) <= MidDist(clickPoint, cuts[j], cuts[j + 1])
            /\ \A j \in (i + 1)..(Len(cuts) - 1) :
                  MidDist(clickPoint, cuts[i], cuts[i + 1]) < MidDist(clickPoint, cuts[j], cuts[j + 1])

\* The loop that finds clickedIdx: the first sub-interval of least midpoint distance
\* (-1 when there is none); indices count from 1
clickedIdx(cuts, clickPoint) ==
    IF Len(cuts) < 2 THEN -1
    ELSE CHOOSE i \in 1..(Len(cuts) - 1) :
            /\ \A j \in 1..(Len(cuts) - 1) :
                  MidDist(clickPoint, cuts[i], cuts[i + 1]) <= MidDist(clickPoint, cuts[j], cuts[j + 1])
            /\ \A j \in 1..(i - 1) :
                  MidDist(clickPoint, cuts[i], cuts[i + 1]) < MidDist(clickPoint, cuts[j], cuts[j + 1])

\* faulty variant: the clicked sub-interval is not left out
trimPiecesAll(cuts, clicked) ==
    [i \in 1..(Len(cuts) - 1) |-> [type |-> "line", p1 |-> cuts[i], p2 |-> cuts[i + 1]]]

\* faulty variant: the pieces are listed from the far end of the line
trimPiecesFromFarEnd(cuts, clicked) ==
    LET keep == SelectSeq([i \in 1..(Len(cuts) - 1) |-> Len(cuts) - i],
                          LAMBDA i : i # clicked /\ Dist2(cuts[i], cuts[i + 1]) > 0)
    IN  [k \in 1..Len(keep) |-> [type |-> "line", p1 |-> cuts[keep[k]], p2 |-> cuts[keep[k] + 1]]]

\* The loop that builds newEntities; Utils.dist < 0.001 is equality on integer points
trimPieces(cuts, clicked) ==
    LET keep == SelectSeq([i \in 1..(Len(cuts) - 1) |-> i],
                          LAMBDA i : i # clicked /\ Dist2(cuts[i], cuts[i + 1]) > 0)
    IN  [k \in 1..Len(keep) |-> [type |-> "line", p1 |-> cuts[keep[k]], p2 |-> cuts[keep[k] + 1]]]

\* Geometry.trimLine
trimLine(entity, clickPoint, allEntities) ==
    LET raw == trimCutsRaw(entity, allEntities)
    IN  IF Len(raw) = 0 THEN Null
        ELSE LET cuts == trimCuts(entity, raw)
             IN  Array(trimPieces(cuts, clickedIdx(cuts, clickPoint)))

\* The lines trimmed and, for each, the entities that may bound it
TrimScenes ==
    { [entity |-> Line(1, Pt(0, 0), Pt(12, 0)),
       pool |-> { Line(2, Pt(4, -4), Pt(4, 4)),
                  Line(3, Pt(8, -2), Pt(8, 2)),
                  Line(4, Pt(0, -3), Pt(0, 3)),
                  Line(5, Pt(0, 1), Pt(12, 1)),
                  Line(6, Pt(12, 0), Pt(12, 5)),
                  [id |-> 7, type |-> "rect", p1 |-> Pt(2, -2), p2 |-> Pt(10, 2)],
                  [id |-> 8, type |-> "circle", center |-> Pt(6, 0), r |-> 3],
                  [id |-> 9, type |-> "polyline", points |-> <<Pt(6, -2), Pt(6, 2), Pt(10, 2), Pt(10, -2)>>],
                  [id |-> 10, type |-> "ellipse", center |-> Pt(6, 0), rx |-> 4, ry |-> 2, rotation |-> 0] },
       clicks |-> {Pt(1, 0), Pt(2, 1), Pt(5, 0), Pt(6, 0), Pt(7, -1), Pt(9, 0), Pt(11, 0), Pt(14, 2)}],
      [entity |-> Line(1, Pt(0, 0), Pt(12, 16)),
       pool |-> { Line(2, Pt(0, 8), Pt(12, 8)),
                  Line(3, Pt(3, 0), Pt(3, 8)),
                  Line(4, Pt(20, 0), Pt(20, 8)),
                  [id |-> 5, type |-> "circle", center |-> Pt(6, 8), r |-> 5] },
       clicks |-> {Pt(1, 1), Pt(3, 4), Pt(6, 8), Pt(8, 11), Pt(12, 16)}] }

\* The entities of a set, as a list in the order of their ids
RECURSIVE ListOf(_)
ListOf(S) ==
    IF S = {} THEN <<>>
    ELSE LET e == CHOOSE x \in S : \A y \in S : x.id <= y.id
         IN  <<e>> \o ListOf(S \ {e})

\* The most boundary entities in one call
MaxOthers == 3

InitTrim ==
    /\ InitQTIdle
    /\ \E sc \in TrimScenes :
         \E others \in SUBSET sc.pool, click \in sc.clicks :
            /\ Cardinality(others) <= MaxOthers
            /\ geo = [fn |-> "args", entity |-> sc.entity, clickPoint |-> click,
                      allEntities |-> ListOf(others \cup {sc.entity})]

CallTrimLine ==
    /\ geo.fn = "args"
    /\ geo' = Returned(geo, "trimLine", trimLine(geo.entity, geo.clickPoint, geo.allEntities))
    /\ QTIdle

NextTrim == CallTrimLine

SpecTrim == InitTrim /\ [][NextTrim]_vars

\* The points where the trimmed line meets the entities of another id
CutPointSet(g) ==
    UNION { SeqToSet(findIntersections(g.entity, g.allEntities[k])) :
              k \in {i \in 1..Len(g.allEntities) : g.allEntities[i].id # g.entity.id} }

\* The entities of another id that meet the trimmed line
CrossingEntities(g) ==
    {k \in 1..Len(g.allEntities) :
        /\ g.allEntities[k].id # g.entity.id
        /\ findIntersections(g.entity, g.allEntities[k]) # <<>>}

\* The sub-intervals of the line between consecutive points of P, ordered from p1
Intervals(p1, P) ==
    {ab \in P \X P :
        /\ Dist2(p1, ab[1]) < Dist2(p1, ab[2])
        /\ ~ \E c \in P : Dist2(p1, ab[1]) < Dist2(p1, c) /\ Dist2(p1, c) < Dist2(p1, ab[2])}

PiecesOf(result) == {<<result[k].p1, result[k].p2>> : k \in 1..Len(result)}

RECURSIVE SumOfLengths(_)
SumOfLengths(lines) ==
    IF lines = <<>> THEN 0
    ELSE Dist(lines[1].p1, lines[1].p2) + SumOfLengths(Tail(lines))

\* The lengths of the returned lines add up to the line's length less the removed part
LengthsAddUp(g) ==
    \E rem \in Intervals(g.entity.p1, CutPointSet(g) \cup {g.entity.p1, g.entity.p2}) :
        /\ <<rem[1], rem[2]>> \notin PiecesOf(g.result.items)
        /\ SumOfLengths(g.result.items) = Dist(g.entity.p1, g.entity.p2) - Dist(rem[1], rem[2])

\* C6 (as stated): trimLine on a line crossed by exactly one other entity returns exactly
\* two line entities whose lengths sum to the original length minus the removed sub-segment
C6_TwoLinesWhenCrossedByOne ==
    (geo.fn = "trimLine" /\ Cardinality(CrossingEntities(geo)) = 1) =>
        /\ geo.result # Null
        /\ Len(geo.result.items) = 2
        /\ LengthsAddUp(geo)

\* C6 (amended): trimLine on a line crossed by exactly one other entity returns as many
\* line entities as there are crossing points strictly inside the line (one for a single
\* crossing, two when the entity crosses twice, none when it only touches an end), and
\* their lengths sum to the original length minus the removed clicked sub-segment
C6_OneLinePerInnerCrossing ==
    (geo.fn = "trimLine" /\ Cardinality(CrossingEntities(geo)) = 1) =>
        /\ geo.result # Null
        /\ Len(geo.result.items) = Cardinality(CutPointSet(geo) \ {geo.entity.p1, geo.entity.p2})
        /\ \A k \in 1..Len(geo.result.items) : geo.result.items[k].type = "line"
        /\ LengthsAddUp(geo)

\* a single crossing entity that crosses once, leaving one line of positive length
C6_Witness ==
    /\ geo.fn = "trimLine"
    /\ Cardinality(CrossingEntities(geo)) = 1
    /\ Cardinality(CutPointSet(geo) \ {geo.entity.p1, geo.entity.p2}) = 1
    /\ geo.result # Null
    /\ Len(geo.result.items) = 1
    /\ SumOfLengths(geo.result.items) > 0

\* C7: trimLine returns null exactly when the line meets no entity of another id; otherwise
\* it returns the sub-intervals between consecutive cut points as lines, all but one, and the
\* one left out has a midpoint at least as near to the click point as every other
C7_NullIffNoCutAndNearestRemoved ==
    geo.fn = "trimLine" =>
        LET X == CutPointSet(geo)
            I == Intervals(geo.entity.p1, X \cup {geo.entity.p1, geo.entity.p2})
        IN  /\ (geo.result = Null) <=> (X = {})
            /\ X # {} =>
                 /\ \A k \in 1..Len(geo.result.items) : geo.result.items[k].type = "line"
                 /\ Len(geo.result.items) = Cardinality(PiecesOf(geo.result.items))
                 /\ \E rem \in I :
                       /\ PiecesOf(geo.result.items) = I \ {rem}
                       /\ \A o \in I : MidDist(geo.clickPoint, rem[1], rem[2])
                                          <= MidDist(geo.clickPoint, o[1], o[2])

\* three cut points inside the line, and the sub-interval removed lies in its middle
C7_Witness ==
    /\ geo.fn = "trimLine"
    /\ geo.result # Null
    /\ Len(geo.result.items) >= 3
    /\ geo.entity.p1 \in {geo.result.items[k].p1 : k \in 1..Len(geo.result.items)}
    /\ geo.entity.p2 \in {geo.result.items[k].p2 : k \in 1..Len(geo.result.items)}

\* trimLine returns null on a line that nothing meets
C7_WitnessNull ==
    /\ geo.fn = "trimLine"
    /\ Len(geo.allEntities) >= 2
    /\ geo.result = Null

----------------------------------------------------------------------------
(* Snap point detection.  A distance is kept as its square: every test on distances
   compares two of them, or one with a positive tolerance. *)

\* Math.round(v / g) for g > 0: halves go up
RoundDiv(v, g) == (2 * v + g) \div (2 * g)

\* Utils.snapPointToGrid: the nearest grid point
snapPointToGrid(point, gridSize) ==
    Pt(RoundDiv(point.x, gridSize) * gridSize, RoundDiv(point.y, gridSize) * gridSize)

\* Utils.closestPointOnSegment: the projection of p on the segment, clamped to its ends
closestPointOnSegment(p, a, b) ==
    LET l2 == Dist2(a, b)
        tn == Dot(Vector(a, p), Vector(a, b))
    IN  IF l2 = 0 \/ tn <= 0 THEN a
        ELSE IF tn >= l2 THEN b
        ELSE Pt(a.x + DivExact(tn * (b.x - a.x), l2), a.y + DivExact(tn * (b.y - a.y), l2))

\* Math.cos and Math.sin, on the whole multiples of pi/2
Cos(a) == CASE Normalize(a) = 0 -> 1 [] Normalize(a) = 2 -> 0 [] Normalize(a) = 4 -> -1 [] Normalize(a) = 6 -> 0

Sin(a) == CASE Normalize(a) = 0 -> 0 [] Normalize(a) = 2 -> 1 [] Normalize(a) = 4 -> 0 [] Normalize(a) = 6 -> -1

\* Utils.polarPoint
polarPoint(center, angle, r) == Pt(center.x + r * Cos(angle), center.y + r * Sin(angle))

\* The four corners of a rect, in the order the code lists them
rectCorners(entity) ==
    << entity.p1, Pt(entity.p2.x, entity.p1.y), entity.p2, Pt(entity.p1.x, entity.p2.y) >>

\* The loop "if (d < minDist) { minDist = d; nearest = p; }" over pts: the first point at
\* the least distance from origin, null over no points
FirstNearest(origin, pts) ==
    IF pts = <<>> THEN Null
    ELSE pts[CHOOSE i \in 1..Len(pts) :
                /\ \A j \in 1..Len(pts) : Dist2(origin, pts[i]) <= Dist2(origin, pts[j])
                /\ \A j \in 1..(i - 1) : Dist2(origin, pts[i]) < Dist2(origin, pts[j])]

\* Geometry.getEndpoints (block references are not offered)
getEndpoints(entity) ==
    CASE entity.type = "line" -> <<entity.p1, entity.p2>>
      [] entity.type = "polyline" -> entity.points
      [] entity.type = "rect" -> rectCorners(entity)
      [] entity.type = "arc" ->
            << polarPoint(entity.center, entity.start, entity.r),
               polarPoint(entity.center, entity.end, entity.r) >>
      [] OTHER -> <<>>

\* Geometry.getMidpoints
getMidpoints(entity) ==
    CASE entity.type = "line" -> <<Midpoint(entity.p1, entity.p2)>>
      [] entity.type = "polyline" ->
            [i \in 1..(Len(entity.points) - 1) |-> Midpoint(entity.points[i], entity.points[i + 1])]
      [] entity.type = "rect" ->
            LET c == rectCorners(entity)
            IN  <<Midpoint(c[1], c[2]), Midpoint(c[2], c[3]), Midpoint(c[3], c[4]), Midpoint(c[4], c[1])>>
      [] OTHER -> <<>>

\* Geometry.getCenters
getCenters(entity) ==
    CASE entity.type \in {"circle", "arc", "ellipse", "donut"} -> <<entity.center>>
      [] entity.type = "rect" -> <<Midpoint(entity.p1, entity.p2)>>
      [] OTHER -> <<>>

\* Geometry.getQuadrantPoints
getQuadrantPoints(entity) ==
    CASE entity.type \in {"circle", "donut"} ->
            << Pt(entity.center.x + entity.r, entity.center.y),
               Pt(entity.center.x, entity.center.y + entity.r),
               Pt(entity.center.x - entity.r, entity.center.y),
               Pt(entity.center.x, entity.center.y - entity.r) >>
      [] entity.type = "arc" ->
            LET on == SelectSeq(<<0, 2, 4, 6>>, LAMBDA a : isAngleOnArc(a, entity))
            IN  [k \in 1..Len(on) |-> polarPoint(entity.center, on[k], entity.r)]
      [] entity.type = "ellipse" ->
            LET cosR == Cos(entity.rotation)
                sinR == Sin(entity.rotation)
                at(x, y) == Pt(entity.center.x + x * cosR - y * sinR,
                               entity.center.y + x * sinR + y * cosR)
            IN  <<at(entity.rx, 0), at(0, entity.ry), at(-entity.rx, 0), at(0, -entity.ry)>>
      [] OTHER -> <<>>

\* The consecutive pairs of a point list as closest points to point
closestOnEach(point, pts, closed) ==
    [i \in 1..(IF closed THEN Len(pts) ELSE Len(pts) - 1) |->
        closestPointOnSegment(point, pts[i], pts[(i % Len(pts)) + 1])]

\* Geometry.getNearestPoint (rx and ry are not zero on the ellipses offered)
getNearestPoint(point, entity) ==
    CASE entity.type = "line" -> closestPointOnSegment(point, entity.p1, entity.p2)
      [] entity.type = "circle" ->
            \* center + r (point - center) / |point - center|: a point of the circle itself
            IF Dist2(point, entity.center) = entity.r * entity.r THEN point
            ELSE polarPoint(entity.center,
                            Atan2(point.y - entity.center.y, point.x - entity.center.x), entity.r)
      [] entity.type = "polyline" -> FirstNearest(point, closestOnEach(point, entity.points, FALSE))
      [] entity.type = "arc" ->
            LET arcAngle == Atan2(point.y - entity.center.y, point.x - entity.center.x)
                ep1 == polarPoint(entity.center, entity.start, entity.r)
                ep2 == polarPoint(entity.center, entity.end, entity.r)
            IN  IF isAngleOnArc(arcAngle, entity) THEN polarPoint(entity.center, arcAngle, entity.r)
                ELSE IF Dist2(point, ep1) < Dist2(point, ep2) THEN ep1 ELSE ep2
      [] entity.type = "rect" -> FirstNearest(point, closestOnEach(point, rectCorners(entity), TRUE))
      [] entity.type = "ellipse" ->
            LET ea == Atan2(point.y - entity.center.y, point.x - entity.center.x)
            IN  Pt(entity.center.x + entity.rx * Cos(ea), entity.center.y + entity.ry * Sin(ea))
      [] OTHER -> Null

\* Geometry.perpendicularToLine
perpendicularToLine(point, lineP1, lineP2) ==
    LET dx == lineP2.x - lineP1.x
        dy == lineP2.y - lineP1.y
        lenSq == dx * dx + dy * dy
        tn == (point.x - lineP1.x) * dx + (point.y - lineP1.y) * dy
    IN  IF lenSq = 0 THEN Null
        ELSE IF tn < 0 \/ tn > lenSq THEN Null
        ELSE Pt(lineP1.x + DivExact(tn * dx, lenSq), lineP1.y + DivExact(tn * dy, lenSq))

\* The feet of the perpendiculars on the consecutive pairs of a point list, nulls left out
perpendicularOnEach(fromPoint, pts, closed) ==
    SelectSeq([i \in 1..(IF closed THEN Len(pts) ELSE Len(pts) - 1) |->
                  perpendicularToLine(fromPoint, pts[i], pts[(i % Len(pts)) + 1])],
              LAMBDA pp : pp # Null)

\* Geometry.getPerpendicularPoint
getPerpendicularPoint(fromPoint, entity) ==
    CASE entity.type = "line" -> perpendicularToLine(fromPoint, entity.p1, entity.p2)
      [] entity.type = "polyline" ->
            FirstNearest(fromPoint, perpendicularOnEach(fromPoint, entity.points, FALSE))
      [] entity.type = "circle" ->
            polarPoint(entity.center,
                       Atan2(fromPoint.y - entity.center.y, fromPoint.x - entity.center.x), entity.r)
      [] entity.type = "arc" ->
            LET arcAngle == Atan2(fromPoint.y - entity.center.y, fromPoint.x - entity.center.x)
            IN  IF isAngleOnArc(arcAngle, entity) THEN polarPoint(entity.center, arcAngle, entity.r)
                ELSE Null
      [] entity.type = "rect" ->
            FirstNearest(fromPoint, perpendicularOnEach(fromPoint, rectCorners(entity), TRUE))
      [] OTHER -> Null

\* Geometry.getTangentPoint.  With (dx, dy) = fromPoint - center, d2 = dx^2 + dy^2 and
\* s = sqrt(d2 - r^2), the points at angleToFrom +- acos(r / dist) are
\* center + r (r dx -+ s dy, r dy +- s dx) / d2.  Both lie at the distance s from fromPoint,
\* so the last comparison is decided by rounding: tp1Closer is its outcome.
getTangentPoint(fromPoint, entity, tp1Closer) ==
    IF entity.type # "circle" /\ entity.type # "arc" THEN Null
    ELSE LET c == entity.center
             r == entity.r
             dx == fromPoint.x - c.x
             dy == fromPoint.y - c.y
             distSq == dx * dx + dy * dy
         IN  IF distSq <= r * r THEN Null
             ELSE LET s == Sqrt(distSq - r * r)
                      tp1 == Pt(c.x + DivExact(r * (r * dx - s * dy), distSq),
                                c.y + DivExact(r * (r * dy + s * dx), distSq))
                      tp2 == Pt(c.x + DivExact(r * (r * dx + s * dy), distSq),
                                c.y + DivExact(r * (r * dy - s * dx), distSq))
                      closer == IF tp1Closer THEN tp1 ELSE tp2
                  IN  IF entity.type = "arc"
                      THEN LET onArc1 == isAngleOnArc(Atan2(tp1.y - c.y, tp1.x - c.x), entity)
                               onArc2 == isAngleOnArc(Atan2(tp2.y - c.y, tp2.x - c.x), entity)
                           IN  IF onArc1 /\ onArc2 THEN closer
                               ELSE IF onArc1 THEN tp1
                               ELSE IF onArc2 THEN tp2
                               ELSE Null
                      ELSE closer

\* Geometry._getExtensionPoint
_getExtensionPoint(point, entity, tolerance) ==
    CASE entity.type = "line" ->
            LET dx == entity.p2.x - entity.p1.x
                dy == entity.p2.y - entity.p1.y
                len2 == dx * dx + dy * dy
                tn == (point.x - entity.p1.x) * dx + (point.y - entity.p1.y) * dy
            IN  IF len2 = 0 THEN Null
                ELSE IF tn >= 0 /\ tn <= len2 THEN Null
                ELSE LET proj == Pt(entity.p1.x + DivExact(tn * dx, len2),
                                    entity.p1.y + DivExact(tn * dy, len2))
                     IN  IF Dist2(point, proj) < tolerance * tolerance THEN proj ELSE Null
      [] entity.type = "arc" ->
            LET d == Dist(point, entity.center)
                angle == Atan2(point.y - entity.center.y, point.x - entity.center.x)
            IN  IF Abs(d - entity.r) > tolerance THEN Null
                ELSE IF _angleInArc(angle, entity.start, entity.end) THEN Null
                ELSE polarPoint(entity.center, angle, entity.r)
      [] OTHER -> Null

\* Geometry._findApparentIntersections; _paramOnSegment is tn / len2, 0 on a point segment
_findApparentIntersections(ent1, ent2) ==
    IF ent1.type = "line" /\ ent2.type = "line"
    THEN LET ip == lineLineIntersection(ent1.p1, ent1.p2, ent2.p1, ent2.p2)
             outside(p1, p2) ==
                LET len2 == Dist2(p1, p2)
                    tn == Dot(Vector(p1, ip), Vector(p1, p2))
                IN  len2 # 0 /\ (tn < 0 \/ tn > len2)
         IN  IF ip # Null /\ (outside(ent1.p1, ent1.p2) \/ outside(ent2.p1, ent2.p2))
             THEN <<ip>> ELSE <<>>
    ELSE <<>>

\* A candidate { point, type, distance }; distance2 is the square of its distance
Snap(cursor, p, type) == [point |-> p, type |-> type, distance2 |-> Dist2(cursor, p)]

\* faulty variant: a point at the limit itself is accepted
SnapsWithinOrAt(cursor, pts, type, limit) ==
    LET near == SelectSeq(pts, LAMBDA q : Dist2(cursor, q) <= limit * limit)
    IN  [k \in 1..Len(near) |-> Snap(cursor, near[k], type)]

\* forEach over pts: a candidate for every point nearer to the cursor than the limit
SnapsWithin(cursor, pts, type, limit) ==
    LET near == SelectSeq(pts, LAMBDA q : Dist2(cursor, q) < limit * limit)
    IN  [k \in 1..Len(near) |-> Snap(cursor, near[k], type)]

\* A list of the point, or of nothing when it is null
Some(p) == IF p = Null THEN <<>> ELSE <<p>>

\* faulty variant: nearest outranks every other kind
priorityNearestFirst(type) ==
    CASE type = "nearest" -> 0 [] type = "intersection" -> 1 [] type = "endpoint" -> 2
      [] type = "midpoint" -> 3 [] type = "center" -> 4 [] type = "quadrant" -> 5
      [] type = "node" -> 6 [] type = "perpendicular" -> 7 [] type = "tangent" -> 8
      [] type = "extension" -> 9 [] type = "appint" -> 10 [] type = "grid" -> 11
      [] OTHER -> 99

\* The priority table of findSnapPoints: priority[type] ?? 99
priority(type) ==
    CASE type = "intersection" -> 0 [] type = "endpoint" -> 1 [] type = "midpoint" -> 2
      [] type = "center" -> 3 [] type = "quadrant" -> 4 [] type = "node" -> 5
      [] type = "perpendicular" -> 6 [] type = "tangent" -> 7 [] type = "extension" -> 8
      [] type = "appint" -> 9 [] type = "nearest" -> 10 [] type = "grid" -> 11
      [] OTHER -> 99

\* faulty variant: the comparator orders by distance before priority
compareSnapsByDistance(a, b) ==
    IF a.distance2 # b.distance2 THEN a.distance2 - b.distance2
    ELSE priority(a.type) - priority(b.type)

\* The comparator of snaps.sort: its sign is that of the code's
compareSnaps(a, b) ==
    IF priority(a.type) # priority(b.type) THEN priority(a.type) - priority(b.type)
    ELSE a.distance2 - b.distance2

\* Array.prototype.sort (stable) under compareSnaps
RECURSIVE SortSnaps(_)
SortSnaps(snaps) ==
    IF snaps = <<>> THEN <<>>
    ELSE LET front == SortSnaps(SubSeq(snaps, 1, Len(snaps) - 1))
             last == snaps[Len(snaps)]
             k == Cardinality({i \in 1..Len(front) : compareSnaps(front[i], last) <= 0})
         IN  SubSeq(front, 1, k) \o <<last>> \o SubSeq(front, k + 1, Len(front))

\* The body of entities.forEach in findSnapPoints: the candidates of one entity
entitySnaps(point, entity, snapModes, tolerance, snapFromPoint, tp1Closer) ==
    LET nearestPt == getNearestPoint(point, entity)
        nearEntity == nearestPt # Null /\ Dist2(point, nearestPt) < tolerance * tolerance
    IN  (IF "endpoint" \in snapModes
            THEN SnapsWithin(point, getEndpoints(entity), "endpoint", tolerance) ELSE <<>>)
     \o (IF "midpoint" \in snapModes
            THEN SnapsWithin(point, getMidpoints(entity), "midpoint", tolerance) ELSE <<>>)
     \o (IF "center" \in snapModes
            THEN SnapsWithin(point, getCenters(entity), "center", tolerance) ELSE <<>>)
     \o (IF "nearest" \in snapModes
            THEN SnapsWithin(point, Some(nearestPt), "nearest", tolerance) ELSE <<>>)
     \o (IF "perpendicular" \in snapModes /\ snapFromPoint # Null /\ nearEntity
            THEN SnapsWithin(point, Some(getPerpendicularPoint(snapFromPoint, entity)),
                             "perpendicular", tolerance * 2)
            ELSE <<>>)
     \o (IF "tangent" \in snapModes /\ snapFromPoint # Null /\ nearEntity
            THEN SnapsWithin(point, Some(getTangentPoint(snapFromPoint, entity, tp1Closer)),
                             "tangent", tolerance * 2)
            ELSE <<>>)
     \o (IF "quadrant" \in snapModes
            THEN SnapsWithin(point, getQuadrantPoints(entity), "quadrant", tolerance) ELSE <<>>)
     \o (IF "node" \in snapModes /\ entity.type = "point"
            THEN SnapsWithin(point, <<entity.position>>, "node", tolerance) ELSE <<>>)
     \o (IF "extension" \in snapModes
            THEN LET extPt == _getExtensionPoint(point, entity, tolerance)
                 IN  IF extPt # Null THEN <<Snap(point, extPt, "extension")>> ELSE <<>>
            ELSE <<>>)

\* The two loops over the pairs i < j of entities, for the intersection and the appint
\* candidates
pairSnaps(point, entities, tolerance, type) ==
    Concat([i \in 1..Len(entities) |->
        Concat([j \in 1..Len(entities) |->
            IF j > i
            THEN SnapsWithin(point,
                             IF type = "intersection"
                             THEN findIntersections(entities[i], entities[j])
                             ELSE _findApparentIntersections(entities[i], entities[j]),
                             type, tolerance)
            ELSE <<>>])])

\* findSnapPoints up to the sort: the list snaps.  cadPoints is CAD.points, read for the
\* default of snapFromPoint
snapCandidates(point, entities, snapModes, tolerance, gridSize, fromPoint, cadPoints, tp1Closer) ==
    LET snapFromPoint == IF fromPoint # Null THEN fromPoint
                         ELSE IF Len(cadPoints) > 0 THEN cadPoints[Len(cadPoints)]
                         ELSE Null
    IN  (IF "grid" \in snapModes
            THEN <<Snap(point, snapPointToGrid(point, gridSize), "grid")>> ELSE <<>>)
     \o Concat([k \in 1..Len(entities) |->
                  entitySnaps(point, entities[k], snapModes, tolerance, snapFromPoint, tp1Closer)])
     \o (IF "intersection" \in snapModes
            THEN pairSnaps(point, entities, tolerance, "intersection") ELSE <<>>)
     \o (IF "appint" \in snapModes
            THEN pairSnaps(point, entities, tolerance, "appint")
            ELSE <<>>)

\* Geometry.findSnapPoints
findSnapPoints(point, entities, snapModes, tolerance, gridSize, fromPoint, cadPoints, tp1Closer) ==
    LET snaps == SortSnaps(snapCandidates(point, entities, snapModes, tolerance, gridSize,
                                          fromPoint, cadPoints, tp1Closer))
    IN  IF Len(snaps) > 0 THEN snaps[1] ELSE Null

\* The snap kinds
SnapKinds ==
    {"grid", "endpoint", "midpoint", "center", "nearest", "perpendicular", "tangent",
     "quadrant", "node", "extension", "intersection", "appint"}

\* The settings of snapModes offered: every choice among five of the kinds, every kind
\* alone, every kind switched off alone, and all of them
SnapModeSets ==
    (SUBSET {"intersection", "endpoint", "midpoint", "nearest", "grid"})
        \cup {{k} : k \in SnapKinds} \cup {SnapKinds \ {k} : k \in SnapKinds} \cup {SnapKinds}

SnapCircle == [id |-> 6, type |-> "circle", center |-> Pt(40, 0), r |-> 15]

\* The drawings snapped to, each with the cursor positions tried on it.  A cursor on a
\* drawing with the circle lies on an axis through its centre.
SnapScenes ==
    { [entities |-> <<Line(1, Pt(0, 0), Pt(8, 0)), Line(2, Pt(4, -4), Pt(4, 4))>>,
       cursors |-> {Pt(1, 0), Pt(2, 0), Pt(3, 1), Pt(4, 1), Pt(5, -1), Pt(7, 0), Pt(9, 0), Pt(20, 20)}],
      [entities |-> <<Line(1, Pt(0, 0), Pt(8, 0)), Line(3, Pt(8, 0), Pt(8, 6))>>,
       cursors |-> {Pt(7, 1), Pt(8, 2), Pt(9, 0), Pt(8, -1), Pt(6, 0), Pt(8, 3)}],
      [entities |-> <<Line(1, Pt(0, 0), Pt(8, 0)), Line(5, Pt(12, -2), Pt(12, 4))>>,
       cursors |-> {Pt(10, 0), Pt(11, 1), Pt(12, 0), Pt(12, 6), Pt(9, 1), Pt(4, 2)}],
      [entities |-> <<Line(1, Pt(0, 0), Pt(8, 0))>>,
       cursors |-> {Pt(0, 0), Pt(1, 1), Pt(2, 0), Pt(4, 0), Pt(10, 1)}],
      [entities |-> <<>>,
       cursors |-> {Pt(1, 1), Pt(6, 2)}],
      [entities |-> <<SnapCircle, Line(4, Pt(25, -4), Pt(25, 4)),
                      [id |-> 7, type |-> "point", position |-> Pt(26, 0)]>>,
       cursors |-> {Pt(24, 0), Pt(25, 0), Pt(27, 0), Pt(40, 14), Pt(40, 2), Pt(40, -16)}],
      [entities |-> <<SnapCircle, Line(8, Pt(31, -12), Pt(31, 12))>>,
       cursors |-> {Pt(25, 0), Pt(30, 0), Pt(32, 0), Pt(40, 15)}],
      [entities |-> <<[id |-> 9, type |-> "rect", p1 |-> Pt(16, -2), p2 |-> Pt(20, 2)],
                      [id |-> 10, type |-> "polyline",
                       points |-> <<Pt(18, -4), Pt(18, 4), Pt(24, 4)>>]>>,
       cursors |-> {Pt(16, 0), Pt(17, 2), Pt(18, 1), Pt(19, -2), Pt(20, 3), Pt(22, 4)}] }

Tolerances == {3, 7}

GridSizes == {4, 16}

\* fromPoint: absent, or the last point of the drawing operation under way
FromPoints == {Null, Pt(15, 0)}

\* CAD.points at the time of the call
CadPointLists == {<<>>, <<Pt(2, 6), Pt(40, 25)>>}

InitSnap ==
    /\ InitQTIdle
    /\ \E sc \in SnapScenes :
         \E cursor \in sc.cursors, modes \in SnapModeSets, tol \in Tolerances,
            grid \in GridSizes, from \in FromPoints, cad \in CadPointLists, tp1Closer \in BOOLEAN :
            geo = [fn |-> "args", point |-> cursor, entities |-> sc.entities,
                   snapModes |-> modes, tolerance |-> tol, gridSize |-> grid,
                   fromPoint |-> from, cadPoints |-> cad, tp1Closer |-> tp1Closer]

\* One call of findSnapPoints; the list snaps of the call is kept beside its result
CallFindSnapPoints ==
    /\ geo.fn = "args"
    /\ geo' = Returned(geo, "findSnapPoints",
                       findSnapPoints(geo.point, geo.entities, geo.snapModes, geo.tolerance,
                                      geo.gridSize, geo.fromPoint, geo.cadPoints, geo.tp1Closer))
                @@ [snaps |-> snapCandidates(geo.point, geo.entities, geo.snapModes, geo.tolerance,
                                             geo.gridSize, geo.fromPoint, geo.cadPoints, geo.tp1Closer)]
    /\ QTIdle

NextSnap == CallFindSnapPoints

SpecSnap == InitSnap /\ [][NextSnap]_vars

\* The candidates of one kind among the list snaps of the call
OfKind(g, type) == {g.snaps[k] : k \in {i \in 1..Len(g.snaps) : g.snaps[i].type = type}}

\* The fixed order of the kinds, the first the strongest
KindOrder ==
    << "intersection", "endpoint", "midpoint", "center", "quadrant", "node", "perpendicular",
       "tangent", "extension", "appint", "nearest", "grid" >>

RankOf(type) == CHOOSE k \in 1..Len(KindOrder) : KindOrder[k] = type

\* C3 (as stated): whenever an endpoint candidate and a nearest candidate lie within
\* tolerance of the cursor, findSnapPoints returns the endpoint candidate
C3_EndpointBeatsNearest ==
    (geo.fn = "findSnapPoints" /\ OfKind(geo, "endpoint") # {} /\ OfKind(geo, "nearest") # {}) =>
        geo.result.type = "endpoint"

\* C3 (amended): whenever an endpoint candidate and a nearest candidate lie within tolerance
\* of the cursor, findSnapPoints never returns the nearest candidate, however close it is:
\* it returns the endpoint candidate nearest to the cursor, unless an intersection candidate
\* lies within tolerance too, and then it returns the nearest intersection candidate
C3_EndpointBeatsNearestUnlessIntersection ==
    (geo.fn = "findSnapPoints" /\ OfKind(geo, "endpoint") # {} /\ OfKind(geo, "nearest") # {}) =>
        LET winners == IF OfKind(geo, "intersection") # {} THEN OfKind(geo, "intersection")
                       ELSE OfKind(geo, "endpoint")
        IN  /\ geo.result \in winners
            /\ \A s \in winners : geo.result.distance2 <= s.distance2

\* an endpoint is returned although a nearest candidate is strictly closer to the cursor
C3_Witness ==
    /\ geo.fn = "findSnapPoints"
    /\ OfKind(geo, "intersection") = {}
    /\ geo.result # Null
    /\ geo.result.type = "endpoint"
    /\ \E s \in OfKind(geo, "nearest") : s.distance2 < geo.result.distance2

\* C4: the candidate returned by findSnapPoints is one of the generated candidates, no
\* generated candidate has a kind earlier in the fixed order, no candidate of its kind is
\* nearer to the cursor, and null is returned exactly when no candidate was generated
C4_BestCandidateReturned ==
    geo.fn = "findSnapPoints" =>
        /\ (geo.result = Null) <=> (geo.snaps = <<>>)
        /\ geo.snaps # <<>> =>
             /\ geo.result \in SeqToSet(geo.snaps)
             /\ \A s \in SeqToSet(geo.snaps) :
                   /\ RankOf(geo.result.type) <= RankOf(s.type)
                   /\ s.type = geo.result.type => geo.result.distance2 <= s.distance2

\* the candidate returned is neither the nearest to the cursor of all candidates nor the
\* only one of its kind
C4_Witness ==
    /\ geo.fn = "findSnapPoints"
    /\ geo.result # Null
    /\ \E s \in SeqToSet(geo.snaps) : s.type # geo.result.type /\ s.distance2 < geo.result.distance2
    /\ \E s \in SeqToSet(geo.snaps) : s.type = geo.result.type /\ s.distance2 > geo.result.distance2

\* no candidate is generated although modes are enabled and entities are present
C4_WitnessNull ==
    /\ geo.fn = "findSnapPoints"
    /\ geo.result = Null
    /\ geo.snapModes # {}
    /\ Len(geo.entities) > 0

\* The kinds of the candidates in the list snaps of the call
SnapKindsGenerated == {geo.snaps[k].type : k \in 1..Len(geo.snaps)}

----------------------------------------------------------------------------
(* extendLine and extendArc *)

\* The outcome of a call that ends in "TypeError: this.pointOnSegment is not a function" (or
\* this.pointOnArc): the Geometry object has no such methods
TypeError == [type |-> "TypeError"]

\* const extendDist = 100000, scaled down with the drawings: every boundary offered lies
\* within this distance of the line extended
extendDist == 100

\* The intersections of the ray with one boundary, or the exception raised on the way.
\* "int && this.pointOnSegment(...)" calls the missing method as soon as int is not null,
\* "ints.forEach(... this.pointOnArc ...)" as soon as ints is not empty.
extendLineIntersections(extP1, extP2, boundary) ==
    LET hitsAny(pts, closed) ==
            \E i \in 1..(IF closed THEN Len(pts) ELSE Len(pts) - 1) :
                lineLineIntersection(extP1, extP2, pts[i], pts[(i % Len(pts)) + 1]) # Null
    IN  CASE boundary.type = "line" ->
                IF hitsAny(<<boundary.p1, boundary.p2>>, FALSE) THEN TypeError ELSE Array(<<>>)
          [] boundary.type = "circle" ->
                Array(lineCircleIntersection(extP1, extP2, boundary.center, boundary.r))
          [] boundary.type = "arc" ->
                IF lineCircleIntersection(extP1, extP2, boundary.center, boundary.r) # <<>>
                THEN TypeError ELSE Array(<<>>)
          [] boundary.type = "rect" ->
                IF hitsAny(rectCorners(boundary), TRUE) THEN TypeError ELSE Array(<<>>)
          [] boundary.type = "polyline" ->
                IF hitsAny(boundary.points, FALSE) THEN TypeError ELSE Array(<<>>)
          [] OTHER -> Array(<<>>)

\* The inner loop of extendLine over the intersections of one boundary: closestInt after
\* it (null while minDist is Infinity)
RECURSIVE extendLineClosest(_, _, _, _)
extendLineClosest(refPoint, extDir, ints, closestInt) ==
    IF ints = <<>> THEN closestInt
    ELSE LET int == Head(ints)
             dotProduct == Dot(Vector(refPoint, int), extDir)
             nearer == closestInt = Null \/ Dist2(refPoint, int) < Dist2(refPoint, closestInt)
         IN  extendLineClosest(refPoint, extDir, Tail(ints),
                 IF dotProduct > 0 /\ nearer /\ Dist2(refPoint, int) > 0 THEN int ELSE closestInt)

\* The loop of extendLine over the boundaries from the k-th on: closestInt at its end, or
\* the exception that ends it
RECURSIVE extendLineScan(_, _, _, _, _, _, _)
extendLineScan(extP1, extP2, refPoint, extDir, allEntities, k, closestInt) ==
    IF k > Len(allEntities) THEN closestInt
    ELSE LET found == extendLineIntersections(extP1, extP2, allEntities[k])
         IN  IF found = TypeError THEN TypeError
             ELSE extendLineScan(extP1, extP2, refPoint, extDir, allEntities, k + 1,
                                 extendLineClosest(refPoint, extDir, found.items, closestInt))

\* Geometry.extendLine
extendLine(entity, clickPoint, allEntities) ==
    IF entity.type # "line" THEN Null
    ELSE LET extendFromP1 == Dist2(clickPoint, entity.p1) < Dist2(clickPoint, entity.p2)
             dx == entity.p2.x - entity.p1.x
             dy == entity.p2.y - entity.p1.y
             len == Dist(entity.p1, entity.p2)
         IN  IF len = 0 THEN Null
             ELSE LET ex == DivExact(dx * extendDist, len)
                      ey == DivExact(dy * extendDist, len)
                      extP1 == IF extendFromP1 THEN Pt(entity.p1.x - ex, entity.p1.y - ey)
                               ELSE entity.p2
                      extP2 == IF extendFromP1 THEN entity.p1
                               ELSE Pt(entity.p2.x + ex, entity.p2.y + ey)
                      refPoint == IF extendFromP1 THEN entity.p1 ELSE entity.p2
                      extDir == IF extendFromP1 THEN Pt(-dx, -dy) ELSE Pt(dx, dy)
                      closestInt == extendLineScan(extP1, extP2, refPoint, extDir, allEntities, 1, Null)
                  IN  IF closestInt = TypeError THEN TypeError
                      ELSE IF closestInt = Null THEN Null
                      ELSE IF extendFromP1
                      THEN [type |-> "line", p1 |-> closestInt, p2 |-> entity.p2]
                      ELSE [type |-> "line", p1 |-> entity.p1, p2 |-> closestInt]

\* The intersections of the arc's circle with one boundary, or the exception raised on the
\* way: ints.filter(int => this.pointOnSegment(...)) calls the missing method on the first
\* element of ints
extendArcIntersections(entity, boundary) ==
    CASE boundary.type = "line" ->
            IF lineCircleIntersection(boundary.p1, boundary.p2, entity.center, entity.r) # <<>>
            THEN TypeError ELSE Array(<<>>)
      [] boundary.type = "circle" ->
            Array(circleCircleIntersection(entity.center, entity.r, boundary.center, boundary.r))
      [] OTHER -> Array(<<>>)

\* while (angleDist > 2 * Math.PI) angleDist -= 2 * Math.PI
RECURSIVE WhileAboveTurn(_)
WhileAboveTurn(a) == IF a > TwoPi THEN WhileAboveTurn(a - TwoPi) ELSE a

\* An angle that is no number: closestAngle === null
NoAngle == [type |-> "null", dist |-> 0]

\* The inner loop of extendArc: closestAngle and minAngleDist after the intersections of
\* one boundary, as [angle, dist] (NoAngle while minAngleDist is Infinity)
RECURSIVE extendArcClosest(_, _, _, _)
extendArcClosest(entity, extendStart, ints, closest) ==
    IF ints = <<>> THEN closest
    ELSE LET int == Head(ints)
             angle == Atan2(int.y - entity.center.y, int.x - entity.center.x)
             angleDist == WhileAboveTurn(WhileNegative(
                              IF extendStart THEN entity.start - angle ELSE angle - entity.end))
             nearer == closest = NoAngle \/ angleDist < closest.dist
         IN  extendArcClosest(entity, extendStart, Tail(ints),
                 IF angleDist > 0 /\ nearer
                 THEN [type |-> "angle", angle |-> angle, dist |-> angleDist]
                 ELSE closest)

\* The loop of extendArc over the boundaries from the k-th on
RECURSIVE extendArcScan(_, _, _, _, _)
extendArcScan(entity, extendStart, allEntities, k, closest) ==
    IF k > Len(allEntities) THEN closest
    ELSE LET found == extendArcIntersections(entity, allEntities[k])
         IN  IF found = TypeError THEN TypeError
             ELSE extendArcScan(entity, extendStart, allEntities, k + 1,
                                extendArcClosest(entity, extendStart, found.items, closest))

\* Geometry.extendArc
extendArc(entity, clickPoint, allEntities) ==
    IF entity.type # "arc" THEN Null
    ELSE LET startPoint == polarPoint(entity.center, entity.start, entity.r)
             endPoint == polarPoint(entity.center, entity.end, entity.r)
             extendStart == Dist2(clickPoint, startPoint) < Dist2(clickPoint, endPoint)
             closest == extendArcScan(entity, extendStart, allEntities, 1, NoAngle)
         IN  IF closest = TypeError THEN TypeError
             ELSE IF closest = NoAngle THEN Null
             ELSE IF extendStart
             THEN [type |-> "arc", center |-> entity.center, r |-> entity.r,
                   start |-> closest.angle, end |-> entity.end]
             ELSE [type |-> "arc", center |-> entity.center, r |-> entity.r,
                   start |-> entity.start, end |-> closest.angle]

\* The entities extended, each with the boundaries that may be drawn around it and the
\* click points tried
ExtendScenes ==
    { [entity |-> Line(1, Pt(0, 0), Pt(4, 0)),
       pool |-> { Line(2, Pt(8, -2), Pt(8, 2)),
                  Line(3, Pt(0, 3), Pt(20, 3)),
                  Line(4, Pt(-6, 5), Pt(-6, 9)),
                  [id |-> 5, type |-> "circle", center |-> Pt(20, 0), r |-> 5],
                  [id |-> 6, type |-> "circle", center |-> Pt(10, 20), r |-> 5],
                  [id |-> 7, type |-> "arc", center |-> Pt(-20, 0), r |-> 5, start |-> 6, end |-> 2],
                  [id |-> 8, type |-> "arc", center |-> Pt(10, -20), r |-> 5, start |-> 0, end |-> 4],
                  [id |-> 9, type |-> "rect", p1 |-> Pt(30, -4), p2 |-> Pt(36, 4)],
                  [id |-> 10, type |-> "polyline", points |-> <<Pt(0, 6), Pt(10, 6), Pt(20, 6)>>],
                  [id |-> 11, type |-> "polyline", points |-> <<Pt(12, 6), Pt(12, -6)>>] },
       clicks |-> {Pt(1, 0), Pt(3, 1), Pt(2, 0)}],
      [entity |-> Line(1, Pt(0, 0), Pt(3, 4)),
       pool |-> { Line(2, Pt(9, 0), Pt(9, 20)),
                  Line(3, Pt(3, 0), Pt(6, 4)),
                  [id |-> 5, type |-> "circle", center |-> Pt(9, 12), r |-> 5],
                  [id |-> 6, type |-> "circle", center |-> Pt(30, 0), r |-> 5] },
       clicks |-> {Pt(0, 1), Pt(3, 3)}],
      [entity |-> [id |-> 1, type |-> "arc", center |-> Pt(0, 0), r |-> 5, start |-> 0, end |-> 2],
       pool |-> { Line(2, Pt(-8, 0), Pt(8, 0)),
                  Line(3, Pt(-8, 9), Pt(8, 9)),
                  Line(4, Pt(0, -9), Pt(0, -6)),
                  [id |-> 5, type |-> "circle", center |-> Pt(-5, -5), r |-> 5],
                  [id |-> 6, type |-> "circle", center |-> Pt(5, -5), r |-> 5],
                  [id |-> 7, type |-> "circle", center |-> Pt(20, 20), r |-> 5],
                  [id |-> 8, type |-> "rect", p1 |-> Pt(-3, -3), p2 |-> Pt(3, 3)] },
       clicks |-> {Pt(5, 1), Pt(1, 5), Pt(4, 4)}] }

InitExtend ==
    /\ InitQTIdle
    /\ \E sc \in ExtendScenes :
         \E others \in SUBSET sc.pool, click \in sc.clicks :
            /\ Cardinality(others) <= MaxOthers
            /\ geo = [fn |-> "args", entity |-> sc.entity, clickPoint |-> click,
                      allEntities |-> ListOf(others \cup {sc.entity})]

CallExtendLine ==
    /\ geo.fn = "args"
    /\ geo' = Returned(geo, "extendLine", extendLine(geo.entity, geo.clickPoint, geo.allEntities))
    /\ QTIdle

CallExtendArc ==
    /\ geo.fn = "args"
    /\ geo' = Returned(geo, "extendArc", extendArc(geo.entity, geo.clickPoint, geo.allEntities))
    /\ QTIdle

NextExtend == CallExtendLine \/ CallExtendArc

SpecExtend == InitExtend /\ [][NextExtend]_vars

\* C5: every call of extendLine and of extendArc ends by returning a new line or arc, or
\* null; none ends in an exception
C5_ExtendNeverThrows ==
    geo.fn \in {"extendLine", "extendArc"} =>
        \/ geo.result = Null
        \/ geo.result.type = "line" /\ geo.fn = "extendLine"
        \/ geo.result.type = "arc" /\ geo.fn = "extendArc"

----------------------------------------------------------------------------
(* Entity transformations.  JavaScript objects live in a heap: a list of objects, an object's
   address being its index.  A point is {x, y}; an array is [items |-> addresses]; an entity
   holds its numbers and strings, and the addresses of its points and arrays. *)

\* object[field] = value, adding the field when the object has none
SetField(obj, field, value) ==
    [f \in DOMAIN obj \cup {field} |-> IF f = field THEN value ELSE obj[f]]

\* object.field || default, for a number field that may be absent
FieldOr(obj, field, default) ==
    IF field \in DOMAIN obj /\ obj[field] # 0 THEN obj[field] ELSE default

\* object.field ?? default
FieldOrNullish(obj, field, default) == IF field \in DOMAIN obj THEN obj[field] ELSE default

IsArray(obj) == "items" \in DOMAIN obj

FieldOrder == <<"p1", "p2", "center", "position", "insertPoint", "points", "boundary", "scale">>

\* The fields of an object that hold an address, in the order of FieldOrder
RefFields(obj) ==
    SelectSeq(FieldOrder,
              LAMBDA f : /\ "type" \in DOMAIN obj
                         /\ f \in DOMAIN obj
                         /\ f = "scale" => obj.type = "block")

\* The value an address stands for, nested objects included: what JSON.stringify writes
RECURSIVE DeepValue(_, _)
DeepValue(h, a) ==
    IF IsArray(h[a]) THEN [i \in 1..Len(h[a].items) |-> DeepValue(h, h[a].items[i])]
    ELSE [f \in DOMAIN h[a] |->
            IF f \in SeqToSet(RefFields(h[a])) THEN DeepValue(h, h[a][f]) ELSE h[a][f]]

\* A heap and an address in it: what an allocating operation returns
At(h, a) == [heap |-> h, addr |-> a]

\* faulty variant: { ...entity }, a new object that shares the nested points and arrays
ShallowClone(h, a) == At(Append(h, h[a]), Len(h) + 1)

\* JSON.parse(JSON.stringify(entity)): new objects for the object at a and for every object
\* it holds
RECURSIVE JSONClone(_, _), JSONCloneItems(_, _, _), JSONCloneFields(_, _, _)
JSONClone(h, a) ==
    IF IsArray(h[a])
    THEN LET c == JSONCloneItems(h, h[a].items, <<>>)
         IN  At(Append(c.heap, [items |-> c.addr]), Len(c.heap) + 1)
    ELSE LET c == JSONCloneFields(h, h[a], RefFields(h[a]))
         IN  At(Append(c.heap, c.addr), Len(c.heap) + 1)

\* clones of the items of an array; addr is the list of their addresses
JSONCloneItems(h, items, done) ==
    IF items = <<>> THEN At(h, done)
    ELSE LET c == JSONClone(h, Head(items))
         IN  JSONCloneItems(c.heap, Tail(items), Append(done, c.addr))

\* clones of the objects held in the fields; addr is the object with the new addresses
JSONCloneFields(h, obj, fields) ==
    IF fields = <<>> THEN At(h, obj)
    ELSE LET c == JSONClone(h, obj[Head(fields)])
         IN  JSONCloneFields(c.heap, SetField(obj, Head(fields), c.addr), Tail(fields))

\* object.field = value
Assign(h, a, field, value) == [h EXCEPT ![a] = SetField(@, field, value)]

\* object.field = a new point or object
AssignNew(h, a, field, obj) == Assign(Append(h, obj), a, field, Len(h) + 1)

\* p.x += delta.x; p.y += delta.y on the point held in object.field
AddToPoint(h, a, field, delta) ==
    [h EXCEPT ![h[a][field]] = SetField(SetField(@, "x", @.x + delta.x), "y", @.y + delta.y)]

\* p.x += delta.x; p.y += delta.y on each point of the array items, from the k-th on
RECURSIVE AddToEach(_, _, _, _)
AddToEach(h, items, k, delta) ==
    IF k > Len(items) THEN h
    ELSE AddToEach([h EXCEPT ![items[k]] = SetField(SetField(@, "x", @.x + delta.x), "y", @.y + delta.y)],
                   items, k + 1, delta)

\* object.field = [new points], as built by Array.prototype.map
AssignNewPoints(h, a, field, pts) ==
    LET n == Len(pts)
        h2 == Append(h \o pts, [items |-> [i \in 1..n |-> Len(h) + i]])
    IN  Assign(h2, a, field, Len(h2))

\* The point at the address held in object.field
PointOf(h, a, field) == Pt(h[h[a][field]].x, h[h[a][field]].y)

\* The points of the array held in object.field
PointsOf(h, a, field) ==
    LET items == h[h[a][field]].items
    IN  [i \in 1..Len(items) |-> Pt(h[items[i]].x, h[items[i]].y)]

\* Utils.rotatePoint: a new point, p turned about center by angle (a multiple of pi/2)
rotatePoint(p, center, angle) ==
    Pt(center.x + (p.x - center.x) * Cos(angle) - (p.y - center.y) * Sin(angle),
       center.y + (p.x - center.x) * Sin(angle) + (p.y - center.y) * Cos(angle))

\* Utils.scalePoint: a new point
scalePoint(p, center, scale) ==
    Pt(center.x + (p.x - center.x) * scale, center.y + (p.y - center.y) * scale)

\* Utils.mirrorPoint: a new point, twice the foot of p on the line less p
mirrorPoint(p, lineP1, lineP2) ==
    LET d == Vector(lineP1, lineP2)
        tn == Dot(Vector(lineP1, p), d)
    IN  Pt(2 * lineP1.x + DivExact(2 * tn * d.x, Dot(d, d)) - p.x,
           2 * lineP1.y + DivExact(2 * tn * d.y, Dot(d, d)) - p.y)

\* Utils.radToDeg, of an angle in units of pi/4
radToDeg(angle) == 45 * angle

\* moved.p2 = { x: p1.x + (width ?? |p2.x - p1.x|), y: p1.y + (height ?? |p2.y - p1.y|) }
imageCorner(h, a) ==
    LET p1 == PointOf(h, a, "p1")
        p2 == PointOf(h, a, "p2")
    IN  Pt(p1.x + FieldOrNullish(h[a], "width", Abs(p2.x - p1.x)),
           p1.y + FieldOrNullish(h[a], "height", Abs(p2.y - p1.y)))

\* Geometry.moveEntity
moveEntity(h0, entity, delta) ==
    LET c == JSONClone(h0, entity)
        h == c.heap
        moved == c.addr
        type == h[moved].type
    IN  CASE type \in {"line", "rect"} ->
                At(AddToPoint(AddToPoint(h, moved, "p1", delta), moved, "p2", delta), moved)
          [] type \in {"circle", "arc", "ellipse", "donut"} ->
                At(AddToPoint(h, moved, "center", delta), moved)
          [] type = "polyline" -> At(AddToEach(h, h[h[moved].points].items, 1, delta), moved)
          [] type \in {"text", "point"} -> At(AddToPoint(h, moved, "position", delta), moved)
          [] type = "image" ->
                LET h1 == AddToPoint(h, moved, "p1", delta)
                IN  At(AssignNew(h1, moved, "p2", imageCorner(h1, moved)), moved)
          [] type = "block" -> At(AddToPoint(h, moved, "insertPoint", delta), moved)
          [] OTHER -> At(h, moved)

\* Geometry.rotateEntity
rotateEntity(h0, entity, center, angle) ==
    LET c == JSONClone(h0, entity)
        h == c.heap
        rotated == c.addr
        type == h[rotated].type
        turned(field) == AssignNew(h, rotated, field, rotatePoint(PointOf(h, rotated, field), center, angle))
    IN  CASE type = "line" ->
                LET h1 == turned("p1")
                IN  At(AssignNew(h1, rotated, "p2", rotatePoint(PointOf(h, rotated, "p2"), center, angle)),
                       rotated)
          [] type \in {"circle", "donut"} -> At(turned("center"), rotated)
          [] type = "arc" ->
                At(Assign(Assign(turned("center"), rotated, "start", h[rotated].start + angle),
                          rotated, "end", h[rotated].end + angle), rotated)
          [] type = "ellipse" ->
                At(Assign(turned("center"), rotated, "rotation", FieldOr(h[rotated], "rotation", 0) + angle),
                   rotated)
          [] type = "rect" ->
                LET p1 == PointOf(h, rotated, "p1")
                    p2 == PointOf(h, rotated, "p2")
                    corners == <<p1, Pt(p2.x, p1.y), p2, Pt(p1.x, p2.y), p1>>
                    h1 == Append(h, SetField(h[rotated], "type", "polyline"))
                IN  At(AssignNewPoints(h1, Len(h1), "points",
                                       [i \in 1..5 |-> rotatePoint(corners[i], center, angle)]),
                       Len(h1))
          [] type = "polyline" ->
                LET pts == PointsOf(h, rotated, "points")
                IN  At(AssignNewPoints(h, rotated, "points",
                                       [i \in 1..Len(pts) |-> rotatePoint(pts[i], center, angle)]),
                       rotated)
          [] type = "text" ->
                At(Assign(turned("position"), rotated, "rotation",
                          FieldOr(h[rotated], "rotation", 0) + radToDeg(angle)), rotated)
          [] type = "image" ->
                LET h1 == Assign(turned("p1"), rotated, "rotation",
                                 FieldOr(h[rotated], "rotation", 0) + radToDeg(angle))
                IN  At(AssignNew(h1, rotated, "p2", imageCorner(h1, rotated)), rotated)
          [] type = "block" ->
                At(Assign(turned("insertPoint"), rotated, "rotation",
                          FieldOr(h[rotated], "rotation", 0) + angle), rotated)
          [] type = "point" -> At(turned("position"), rotated)
          [] OTHER -> At(h, rotated)

\* scaled.scale?.x || 1 and scaled.scale?.y || 1 of a block reference
blockScale(h, a) ==
    IF "scale" \in DOMAIN h[a]
    THEN Pt(FieldOr(h[h[a].scale], "x", 1), FieldOr(h[h[a].scale], "y", 1))
    ELSE Pt(1, 1)

\* Geometry.scaleEntity
scaleEntity(h0, entity, center, scale) ==
    LET c == JSONClone(h0, entity)
        h == c.heap
        scaled == c.addr
        type == h[scaled].type
        sized(field) == AssignNew(h, scaled, field, scalePoint(PointOf(h, scaled, field), center, scale))
        times(h1, field) == Assign(h1, scaled, field, h1[scaled][field] * scale)
    IN  CASE type \in {"line", "rect"} ->
                At(AssignNew(sized("p1"), scaled, "p2", scalePoint(PointOf(h, scaled, "p2"), center, scale)),
                   scaled)
          [] type \in {"circle", "arc"} -> At(times(sized("center"), "r"), scaled)
          [] type = "ellipse" -> At(times(times(sized("center"), "rx"), "ry"), scaled)
          [] type = "polyline" ->
                LET pts == PointsOf(h, scaled, "points")
                IN  At(AssignNewPoints(h, scaled, "points",
                                       [i \in 1..Len(pts) |-> scalePoint(pts[i], center, scale)]),
                       scaled)
          [] type = "text" -> At(times(sized("position"), "height"), scaled)
          [] type = "image" ->
                LET h1 == sized("p1")
                    p1 == PointOf(h1, scaled, "p1")
                    p2 == PointOf(h1, scaled, "p2")
                    width == FieldOrNullish(h1[scaled], "width", Abs(p2.x - p1.x)) * scale
                    height == FieldOrNullish(h1[scaled], "height", Abs(p2.y - p1.y)) * scale
                    h2 == Assign(Assign(Assign(h1, scaled, "width", width), scaled, "height", height),
                                 scaled, "scale", FieldOrNullish(h1[scaled], "scale", 1) * scale)
                IN  At(AssignNew(h2, scaled, "p2", Pt(p1.x + width, p1.y + height)), scaled)
          [] type = "block" ->
                LET h1 == sized("insertPoint")
                IN  At(AssignNew(h1, scaled, "scale",
                                 Pt(blockScale(h1, scaled).x * scale, blockScale(h1, scaled).y * scale)),
                       scaled)
          [] type = "point" -> At(sized("position"), scaled)
          [] type = "donut" -> At(times(times(sized("center"), "innerRadius"), "outerRadius"), scaled)
          [] OTHER -> At(h, scaled)

\* Geometry.mirrorEntity
mirrorEntity(h0, entity, lineP1, lineP2) ==
    LET c == JSONClone(h0, entity)
        h == c.heap
        mirrored == c.addr
        type == h[mirrored].type
        flipped(field) ==
            AssignNew(h, mirrored, field, mirrorPoint(PointOf(h, mirrored, field), lineP1, lineP2))
    IN  CASE type \in {"line", "rect"} ->
                At(AssignNew(flipped("p1"), mirrored, "p2",
                             mirrorPoint(PointOf(h, mirrored, "p2"), lineP1, lineP2)), mirrored)
          [] type \in {"circle", "donut"} -> At(flipped("center"), mirrored)
          [] type = "arc" ->
                At(Assign(Assign(flipped("center"), mirrored, "start", -h[mirrored].end),
                          mirrored, "end", -h[mirrored].start), mirrored)
          [] type = "ellipse" ->
                At(Assign(flipped("center"), mirrored, "rotation", -FieldOr(h[mirrored], "rotation", 0)),
                   mirrored)
          [] type = "polyline" ->
                LET pts == PointsOf(h, mirrored, "points")
                IN  At(AssignNewPoints(h, mirrored, "points",
                                       [i \in 1..Len(pts) |-> mirrorPoint(pts[i], lineP1, lineP2)]),
                       mirrored)
          [] type \in {"text", "point"} -> At(flipped("position"), mirrored)
          [] type = "image" ->
                LET h1 == Assign(flipped("p1"), mirrored, "rotation", -FieldOr(h[mirrored], "rotation", 0))
                IN  At(AssignNew(h1, mirrored, "p2", imageCorner(h1, mirrored)), mirrored)
          [] type = "block" ->
                LET mirrorAngle == Atan2(lineP2.y - lineP1.y, lineP2.x - lineP1.x)
                    h1 == Assign(flipped("insertPoint"), mirrored, "rotation",
                                 -(FieldOr(h[mirrored], "rotation", 0) - 2 * mirrorAngle))
                IN  At(AssignNew(h1, mirrored, "scale",
                                 Pt(-blockScale(h1, mirrored).x, blockScale(h1, mirrored).y)), mirrored)
          [] OTHER -> At(h, mirrored)

\* The heaps a sequence of transformations starts from: one entity of every kind, held at
\* the last address, with the points and arrays it refers to before it
XformHeaps ==
    { << Pt(0, 0), Pt(4, 2), [type |-> "line", p1 |-> 1, p2 |-> 2] >>,
      << Pt(1, 1), Pt(5, 3), [type |-> "rect", p1 |-> 1, p2 |-> 2] >>,
      << Pt(2, 0), [type |-> "circle", center |-> 1, r |-> 3] >>,
      << Pt(2, 0), [type |-> "arc", center |-> 1, r |-> 3, start |-> 0, end |-> 2] >>,
      << Pt(0, 2), [type |-> "ellipse", center |-> 1, rx |-> 4, ry |-> 2, rotation |-> 2] >>,
      << Pt(0, 2), [type |-> "ellipse", center |-> 1, rx |-> 4, ry |-> 2] >>,
      << Pt(0, 0), Pt(2, 0), Pt(2, 4), [items |-> <<1, 2, 3>>], [type |-> "polyline", points |-> 4] >>,
      << Pt(3, 1), [type |-> "text", position |-> 1, text |-> "A", height |-> 2] >>,
      << Pt(0, 0), Pt(6, 4), [type |-> "image", p1 |-> 1, p2 |-> 2, width |-> 6, height |-> 4] >>,
      << Pt(1, 0), Pt(3, 5), [type |-> "image", p1 |-> 1, p2 |-> 2, rotation |-> 90, scale |-> 2] >>,
      << Pt(2, 2), Pt(2, 1), [type |-> "block", insertPoint |-> 1, scale |-> 2, rotation |-> 2,
                              blockName |-> "B"] >>,
      << Pt(2, 2), [type |-> "block", insertPoint |-> 1, blockName |-> "B"] >>,
      << Pt(1, 3), [type |-> "point", position |-> 1] >>,
      << Pt(1, 1), [type |-> "donut", center |-> 1, innerRadius |-> 1, outerRadius |-> 2] >>,
      << Pt(0, 0), Pt(4, 0), [items |-> <<1, 2>>], [type |-> "hatch", boundary |-> 3, angle |-> 1] >> }

\* The most transformations in one sequence
MaxCalls == 3

Deltas == {Pt(1, 2), Pt(-3, 0)}

RotationAngles == {2, -2}

ScaleFactors == {2, 3}

MirrorLines == {<<Pt(0, 0), Pt(1, 0)>>, <<Pt(0, 0), Pt(1, 1)>>}

XformOps == {"moveEntity", "rotateEntity", "scaleEntity", "mirrorEntity"}

\* entities lists the entity first given and every entity returned since; values the value
\* each had when it was given or returned
InitXform ==
    /\ InitQTIdle
    /\ \E h \in XformHeaps :
         geo = [fn |-> "args", heap |-> h, entities |-> <<Len(h)>>,
                values |-> <<DeepValue(h, Len(h))>>, arg |-> 0, result |-> 0]

\* The entities a call may be given: the first one, or the one returned last
XformTargets == {geo.entities[1], geo.entities[Len(geo.entities)]}

\* The state after a call on target that returned r
AfterXform(fn, target, r) ==
    /\ Len(geo.entities) <= MaxCalls
    /\ geo' = [fn |-> fn, heap |-> r.heap, entities |-> Append(geo.entities, r.addr),
               values |-> Append(geo.values, DeepValue(r.heap, r.addr)),
               arg |-> target, result |-> r.addr]
    /\ QTIdle

CallMoveEntity ==
    \E target \in XformTargets, delta \in Deltas :
        AfterXform("moveEntity", target, moveEntity(geo.heap, target, delta))

CallRotateEntity ==
    \E target \in XformTargets, angle \in RotationAngles :
        AfterXform("rotateEntity", target, rotateEntity(geo.heap, target, Pt(1, 1), angle))

CallScaleEntity ==
    \E target \in XformTargets, scale \in ScaleFactors :
        AfterXform("scaleEntity", target, scaleEntity(geo.heap, target, Pt(1, 0), scale))

CallMirrorEntity ==
    \E target \in XformTargets, line \in MirrorLines :
        AfterXform("mirrorEntity", target, mirrorEntity(geo.heap, target, line[1], line[2]))

NextXform == CallMoveEntity \/ CallRotateEntity \/ CallScaleEntity \/ CallMirrorEntity

SpecXform == InitXform /\ [][NextXform]_vars

\* C10: after every call of moveEntity, rotateEntity, scaleEntity or mirrorEntity the object
\* returned is none of the objects that existed before, and the entity first given, the
\* entity passed to the call and every entity returned before still have, nested points and
\* point lists included, the value they had when they were given or returned
C10_TransformsLeaveInputsUnchanged ==
    geo.fn \in XformOps =>
        /\ geo.result # geo.arg
        /\ \A i \in 1..(Len(geo.entities) - 1) : geo.result # geo.entities[i]
        /\ \A i \in 1..Len(geo.entities) : DeepValue(geo.heap, geo.entities[i]) = geo.values[i]

\* a third transformation of the first entity, a move, that returned another value
C10_Witness ==
    /\ geo.fn = "moveEntity"
    /\ Len(geo.entities) = MaxCalls + 1
    /\ geo.arg = geo.entities[1]
    /\ geo.heap[geo.arg].type = "polyline"
    /\ geo.heap[geo.result].type = "polyline"
    /\ DeepValue(geo.heap, geo.result) # geo.values[1]

----------------------------------------------------------------------------
(* filletLines *)

\* Utils.angle(a, b): the direction from a to b
Angle(a, b) == Atan2(b.y - a.y, b.x - a.x)

\* Geometry.closestPointOnLine: the foot of point on the segment, clamped to its ends
closestPointOnLine(point, lineP1, lineP2) ==
    LET dx == lineP2.x - lineP1.x
        dy == lineP2.y - lineP1.y
        lengthSq == dx * dx + dy * dy
        tn == (point.x - lineP1.x) * dx + (point.y - lineP1.y) * dy
    IN  IF lengthSq = 0 THEN lineP1
        ELSE IF tn <= 0 THEN lineP1
        ELSE IF tn >= lengthSq THEN lineP2
        ELSE Pt(lineP1.x + DivExact(tn * dx, lengthSq), lineP1.y + DivExact(tn * dy, lengthSq))

\* faulty variant: the endpoint nearer to pt is kept
filletTrimNear(line, pt) ==
    IF Dist2(line.p1, pt) < Dist2(line.p2, pt)
    THEN [p1 |-> line.p1, p2 |-> pt]
    ELSE [p1 |-> pt, p2 |-> line.p2]

\* { p1: d1 > d2 ? line.p1 : pt, p2: d1 > d2 ? pt : line.p2 }, d1 and d2 the distances of
\* line.p1 and line.p2 from pt
filletTrim(line, pt) ==
    IF Dist2(line.p1, pt) > Dist2(line.p2, pt)
    THEN [p1 |-> line.p1, p2 |-> pt]
    ELSE [p1 |-> pt, p2 |-> line.p2]

\* (centerDist * cos(bisector), centerDist * sin(bisector)) with centerDist =
\* radius / sin(|angle2 - angle1| / 2), for lines along the axes: the angles differ by
\* pi/2 or 3pi/2 (centerDist = radius * sqrt 2 along a diagonal) or by pi (centerDist =
\* radius along an axis).  bisector2 is twice the bisector, in units of pi/4.
filletCenterOffset(radius, diff, bisector2) ==
    LET b == Normalize(bisector2 \div 2)
    IN  CASE diff = 4 /\ bisector2 % 2 = 0 /\ b % 2 = 0 -> Pt(radius * Cos(b), radius * Sin(b))
          [] diff \in {2, 6} /\ bisector2 % 2 = 0 /\ b % 2 = 1 ->
                Pt(radius * (IF b \in {1, 7} THEN 1 ELSE -1),
                   radius * (IF b \in {1, 3} THEN 1 ELSE -1))

\* Geometry.filletLines
filletLines(line1, line2, radius) ==
    LET intersection == lineLineIntersection(line1.p1, line1.p2, line2.p1, line2.p2)
    IN  IF intersection = Null THEN Null
        ELSE IF radius = 0
        THEN [line1 |-> filletTrim(line1, intersection),
              line2 |-> filletTrim(line2, intersection),
              arc |-> Null]
        ELSE LET angle1 == Angle(intersection, line1.p1)
                 angle2 == Angle(intersection, line2.p1)
                 diff == Abs(angle2 - angle1)
                 bisector2 == (angle1 + angle2) + (IF diff > 4 THEN TwoPi ELSE 0)
             IN  IF diff = 0 THEN Null
                 ELSE LET off == filletCenterOffset(radius, diff, bisector2)
                          arcCenter == Pt(intersection.x + off.x, intersection.y + off.y)
                          tangent1 == closestPointOnLine(arcCenter, line1.p1, line1.p2)
                          tangent2 == closestPointOnLine(arcCenter, line2.p1, line2.p2)
                      IN  [line1 |-> filletTrim(line1, tangent1) @@ [type |-> "line"],
                           line2 |-> filletTrim(line2, tangent2) @@ [type |-> "line"],
                           arc |-> [type |-> "arc", center |-> arcCenter, r |-> radius,
                                    start |-> Angle(arcCenter, tangent1),
                                    end |-> Angle(arcCenter, tangent2)]]

\* The lines filleted
FilletLineSet ==
    { Line(1, Pt(0, 0), Pt(12, 0)), Line(2, Pt(12, 0), Pt(0, 0)),
      Line(3, Pt(15, -4), Pt(15, 6)), Line(4, Pt(3, 6), Pt(3, -2)),
      Line(5, Pt(6, -4), Pt(6, 4)), Line(6, Pt(0, 4), Pt(12, 4)),
      Line(7, Pt(0, 0), Pt(0, 6)), Line(8, Pt(-6, 2), Pt(-6, 9)),
      Line(9, Pt(0, 0), Pt(3, 4)), Line(10, Pt(12, 8), Pt(12, 0)),
      Line(11, Pt(-4, 4), Pt(4, -4)) }

FilletRadii == {0, 1, 2}

\* The pairs of lines (by id) on which a fillet of radius > 0 is asked for: both run
\* along an axis and reach from the corner to the points where the arc touches them
FilletRoundedPairs ==
    {{1, 4}, {1, 5}, {2, 5}, {4, 6}, {5, 6}, {1, 10}, {6, 10}, {1, 7}, {2, 7}, {6, 7}}

InitFillet ==
    /\ InitQTIdle
    /\ \E line1 \in FilletLineSet, line2 \in FilletLineSet, radius \in FilletRadii :
          /\ line1.id # line2.id
          /\ radius # 0 => {line1.id, line2.id} \in FilletRoundedPairs
          /\ geo = [fn |-> "args", line1 |-> line1, line2 |-> line2, radius |-> radius]

CallFilletLines ==
    /\ geo.fn = "args"
    /\ geo' = Returned(geo, "filletLines", filletLines(geo.line1, geo.line2, geo.radius))
    /\ QTIdle

NextFillet == CallFilletLines

SpecFillet == InitFillet /\ [][NextFillet]_vars

\* d = 0 in lineLineIntersection: the lines are parallel
Parallel(p1, p2, p3, p4) ==
    (p2.x - p1.x) * (p4.y - p3.y) - (p2.y - p1.y) * (p4.x - p3.x) = 0

\* out is line with one endpoint kept in its place, one no nearer to x than the other,
\* and x in the place of the other
CornerTrimmed(line, out, x) ==
    \/ out.p1 = line.p1 /\ out.p2 = x /\ Dist2(line.p1, x) >= Dist2(line.p2, x)
    \/ out.p1 = x /\ out.p2 = line.p2 /\ Dist2(line.p2, x) >= Dist2(line.p1, x)

\* C11: filletLines with radius 0 on two lines that are not parallel returns no arc and
\* two lines; on each input line the endpoint farther from the intersection of the infinite
\* lines is kept and the nearer one is replaced by lineLineIntersection(l1.p1, l1.p2, l2.p1, l2.p2)
C11_ZeroRadiusCornerTrim ==
    (/\ geo.fn = "filletLines"
     /\ geo.radius = 0
     /\ ~Parallel(geo.line1.p1, geo.line1.p2, geo.line2.p1, geo.line2.p2)) =>
        LET x == lineLineIntersection(geo.line1.p1, geo.line1.p2, geo.line2.p1, geo.line2.p2)
        IN  /\ geo.result # Null
            /\ geo.result.arc = Null
            /\ CornerTrimmed(geo.line1, geo.result.line1, x)
            /\ CornerTrimmed(geo.line2, geo.result.line2, x)

\* the corner lies beyond the end of one line and inside the other, nearer to its p1
C11_Witness ==
    /\ geo.fn = "filletLines"
    /\ geo.radius = 0
    /\ geo.result # Null
    /\ geo.result.line1.p2 \notin {geo.line1.p1, geo.line1.p2}
    /\ geo.result.line1.p1 = geo.line1.p1
    /\ geo.result.line2.p1 \notin {geo.line2.p1, geo.line2.p2}
    /\ geo.result.line2.p2 = geo.line2.p2

----------------------------------------------------------------------------
(* lineLineIntersection in both orders of its two lines                    *)

LLCoords == 0..3

LLPoints == { Pt(x, y) : x \in LLCoords, y \in LLCoords }

\* n / d is a whole number (or d is 0)
Whole(n, d) == IF d = 0 THEN TRUE ELSE n % (IF d < 0 THEN -d ELSE d) = 0

\* The lines are parallel or meet in a point of whole coordinates
MeetOnGrid(p1, p2, p3, p4) ==
    LET d == (p2.x - p1.x) * (p4.y - p3.y) - (p2.y - p1.y) * (p4.x - p3.x)
        tn == (p3.x - p1.x) * (p4.y - p3.y) - (p3.y - p1.y) * (p4.x - p3.x)
    IN  Whole(tn * (p2.x - p1.x), d) /\ Whole(tn * (p2.y - p1.y), d)

InitLL ==
    /\ InitQTIdle
    /\ \E p1 \in LLPoints, p2 \in LLPoints, p3 \in LLPoints, p4 \in LLPoints :
          /\ MeetOnGrid(p1, p2, p3, p4)
          /\ geo = [fn |-> "args", p1 |-> p1, p2 |-> p2, p3 |-> p3, p4 |-> p4]

\* lineLineIntersection(p1, p2, p3, p4) and lineLineIntersection(p3, p4, p1, p2)
CallLineLineIntersection ==
    /\ geo.fn = "args"
    /\ geo' = Returned(geo, "lineLineIntersection",
                       lineLineIntersection(geo.p1, geo.p2, geo.p3, geo.p4))
              @@ [swapped |-> lineLineIntersection(geo.p3, geo.p4, geo.p1, geo.p2)]
    /\ QTIdle

NextLL == CallLineLineIntersection

SpecLL == InitLL /\ [][NextLL]_vars

\* q lies on the infinite line through a and b
OnInfiniteLine(q, a, b) == (b.x - a.x) * (q.y - a.y) - (b.y - a.y) * (q.x - a.x) = 0

----------------------------------------------------------------------------
(* circleCircleIntersection                                                *)

CCCentres1 == { Pt(0, 0), Pt(1, -2) }

CCOffsets == { Pt(x, y) : x \in -8..8, y \in -8..8 }

CCRadii == 0..6

IsSquare(n) == n >= 0 /\ \E k \in 0..150 : k * k = n

\* The circles do not meet, or meet in points of whole coordinates
CCOnGrid(c1, r1, c2, r2) ==
    LET d2 == Dist2(c1, c2)
        A == r1 * r1 - r2 * r2 + d2
        R == 4 * r1 * r1 * d2 - A * A
        ex == c2.x - c1.x
        ey == c2.y - c1.y
    IN  IF d2 = 0 \/ R < 0 THEN TRUE
        ELSE IF ~IsSquare(R) THEN FALSE
        ELSE LET S == Sqrt(R)
             IN  /\ Whole(A * ex + S * ey, 2 * d2) /\ Whole(A * ey - S * ex, 2 * d2)
                 /\ Whole(A * ex - S * ey, 2 * d2) /\ Whole(A * ey + S * ex, 2 * d2)

InitCC ==
    /\ InitQTIdle
    /\ \E c1 \in CCCentres1, o \in CCOffsets, r1 \in CCRadii, r2 \in CCRadii :
          LET c2 == Pt(c1.x + o.x, c1.y + o.y)
          IN  /\ CCOnGrid(c1, r1, c2, r2)
              /\ geo = [fn |-> "args", c1 |-> c1, r1 |-> r1, c2 |-> c2, r2 |-> r2]

\* The point {x: NaN, y: NaN}
PtNaN == [x |-> "NaN", y |-> "NaN", nan |-> TRUE]

IsNaN(q) == "nan" \in DOMAIN q

\* The circles touch, from outside or from inside: r1*r1 - a*a is 0 in exact arithmetic
CCTouching(c1, r1, c2, r2) ==
    LET d2 == Dist2(c1, c2)
    IN  d2 # 0 /\ (d2 = (r1 + r2) * (r1 + r2) \/ d2 = (r1 - r2) * (r1 - r2))

\* Geometry.circleCircleIntersection in floating-point arithmetic.  Where the circles
\* touch, a is r1 up to rounding and r1*r1 - a*a is 0 up to rounding; when it comes out
\* below 0 (as for radii 0.1 and centres 0.2 apart) h = Math.sqrt(r1*r1 - a*a) is NaN
\* and so is every coordinate returned, also those where h is multiplied by 0.
circleCircleIntersectionRounded(c1, r1, c2, r2, below) ==
    IF CCTouching(c1, r1, c2, r2) /\ below THEN << PtNaN, PtNaN >>
    ELSE circleCircleIntersection(c1, r1, c2, r2)

CallCircleCircleIntersection ==
    /\ geo.fn = "args"
    /\ \E below \in BOOLEAN :
          geo' = Returned(geo, "circleCircleIntersection",
                     Array(circleCircleIntersectionRounded(geo.c1, geo.r1, geo.c2, geo.r2, below)))
    /\ QTIdle

NextCC == CallCircleCircleIntersection

SpecCC == InitCC /\ [][NextCC]_vars

\* d > r1 + r2, d < |r1 - r2|, or d = 0 with r1 = r2 (d the distance of the centres)
CCApart(c1, r1, c2, r2) ==
    LET d2 == Dist2(c1, c2)
    IN  \/ d2 > (r1 + r2) * (r1 + r2)
        \/ d2 < (r1 - r2) * (r1 - r2)
        \/ d2 = 0 /\ r1 = r2

\* q is a point at distance r from c
AtDistance(q, c, r) == ~IsNaN(q) /\ Dist2(c, q) = r * r

\* C13 (as claimed): circleCircleIntersection(c1, r1, c2, r2) returns the empty list
\* exactly when d > r1 + r2, d < |r1 - r2| or d = 0 with r1 = r2; in every other case it
\* returns exactly two points, each at distance r1 from c1 and r2 from c2; for centres
\* (0,0), (8,0) and radii 5 they are (4,3) and (4,-3).
C13_EmptyOrTwoPointsOnBoth ==
    geo.fn = "circleCircleIntersection" =>
        LET pts == geo.result.items
        IN  /\ pts = <<>> <=> CCApart(geo.c1, geo.r1, geo.c2, geo.r2)
            /\ pts # <<>> =>
                  /\ Len(pts) = 2
                  /\ \A i \in 1..2 : /\ AtDistance(pts[i], geo.c1, geo.r1)
                                     /\ AtDistance(pts[i], geo.c2, geo.r2)
            /\ (geo.c1 = Pt(0, 0) /\ geo.c2 = Pt(8, 0) /\ geo.r1 = 5 /\ geo.r2 = 5) =>
                  SeqToSet(pts) = {Pt(4, 3), Pt(4, -3)}

\* What holds of the code: the same, for circles that do not touch
CCConformsUnlessTouching ==
    geo.fn = "circleCircleIntersection" =>
        CCTouching(geo.c1, geo.r1, geo.c2, geo.r2) \/ C13_EmptyOrTwoPointsOnBoth

\* The example of the specification is computed as it says
CCExampleReached ==
    /\ geo.fn = "circleCircleIntersection"
    /\ geo.c1 = Pt(0, 0) /\ geo.c2 = Pt(8, 0) /\ geo.r1 = 5 /\ geo.r2 = 5
    /\ geo.result.items = << Pt(4, -3), Pt(4, 3) >>

----------------------------------------------------------------------------
(* offsetCircle and offsetRect                                             *)

\* Geometry.offsetCircle; currentDist > radius is compared in squares
offsetCircle(center, radius, distance, clickPoint) ==
    LET newRadius == IF Dist2(center, clickPoint) > radius * radius
                     THEN radius + distance ELSE radius - distance
    IN  IF newRadius <= 0 THEN Null
        ELSE [center |-> center, r |-> newRadius]

\* faulty variant: a rectangle turned inside out is returned as it comes
offsetRectUnchecked(p1, p2, distance, clickPoint) ==
    LET minX == Min(p1.x, p2.x)
        maxX == Max(p1.x, p2.x)
        minY == Min(p1.y, p2.y)
        maxY == Max(p1.y, p2.y)
        isInside == /\ clickPoint.x > minX /\ clickPoint.x < maxX
                    /\ clickPoint.y > minY /\ clickPoint.y < maxY
        sign == IF isInside THEN -1 ELSE 1
    IN  [p1 |-> Pt(minX - distance * sign, minY - distance * sign),
         p2 |-> Pt(maxX + distance * sign, maxY + distance * sign)]

\* Geometry.offsetRect
offsetRect(p1, p2, distance, clickPoint) ==
    LET minX == Min(p1.x, p2.x)
        maxX == Max(p1.x, p2.x)
        minY == Min(p1.y, p2.y)
        maxY == Max(p1.y, p2.y)
        isInside == /\ clickPoint.x > minX /\ clickPoint.x < maxX
                    /\ clickPoint.y > minY /\ clickPoint.y < maxY
        sign == IF isInside THEN -1 ELSE 1
        nMinX == minX - distance * sign
        nMaxX == maxX + distance * sign
        nMinY == minY - distance * sign
        nMaxY == maxY + distance * sign
    IN  IF nMaxX <= nMinX \/ nMaxY <= nMinY THEN Null
        ELSE [p1 |-> Pt(nMinX, nMinY), p2 |-> Pt(nMaxX, nMaxY)]

OffsetCentres == { Pt(0, 0), Pt(3, -1) }

OffsetRadii == 0..5

OffsetDistances == 0..3

OffsetClicks == { Pt(x, y) : x \in -1..6, y \in -2..5 }

OffsetCorners == { Pt(0, 0), Pt(4, 3), Pt(4, 0), Pt(0, 3), Pt(5, 5), Pt(1, 4) }

InitOffset ==
    /\ InitQTIdle
    /\ \E distance \in OffsetDistances, clickPoint \in OffsetClicks :
          \/ \E center \in OffsetCentres, radius \in OffsetRadii :
                geo = [fn |-> "args", shape |-> "circle", center |-> center, radius |-> radius,
                       distance |-> distance, clickPoint |-> clickPoint]
          \/ \E p1 \in OffsetCorners, p2 \in OffsetCorners :
                geo = [fn |-> "args", shape |-> "rect", p1 |-> p1, p2 |-> p2,
                       distance |-> distance, clickPoint |-> clickPoint]

CallOffsetCircle ==
    /\ geo.fn = "args" /\ geo.shape = "circle"
    /\ geo' = Returned(geo, "offsetCircle",
                       offsetCircle(geo.center, geo.radius, geo.distance, geo.clickPoint))
    /\ QTIdle

CallOffsetRect ==
    /\ geo.fn = "args" /\ geo.shape = "rect"
    /\ geo' = Returned(geo, "offsetRect",
                       offsetRect(geo.p1, geo.p2, geo.distance, geo.clickPoint))
    /\ QTIdle

NextOffset == CallOffsetCircle \/ CallOffsetRect

SpecOffset == InitOffset /\ [][NextOffset]_vars

\* The circle returned has the given centre and radius r, and there is none when r <= 0
CircleOfRadius(out, center, r) ==
    IF r <= 0 THEN out = Null
    ELSE out # Null /\ out.center = center /\ out.r = r

\* The rectangle returned is the given one with every side moved outward by d
\* (inward when d < 0), and there is none when no width or no height is left
RectGrownBy(out, p1, p2, d) ==
    LET lo == Pt(Min(p1.x, p2.x) - d, Min(p1.y, p2.y) - d)
        hi == Pt(Max(p1.x, p2.x) + d, Max(p1.y, p2.y) + d)
    IN  IF hi.x - lo.x <= 0 \/ hi.y - lo.y <= 0 THEN out = Null
        ELSE out # Null /\ out.p1 = lo /\ out.p2 = hi

StrictlyInsideRect(q, p1, p2) ==
    /\ Min(p1.x, p2.x) < q.x /\ q.x < Max(p1.x, p2.x)
    /\ Min(p1.y, p2.y) < q.y /\ q.y < Max(p1.y, p2.y)

OutsideRect(q, p1, p2) ==
    \/ q.x < Min(p1.x, p2.x) \/ q.x > Max(p1.x, p2.x)
    \/ q.y < Min(p1.y, p2.y) \/ q.y > Max(p1.y, p2.y)

\* C14: offsetCircle returns radius + distance when the click point is outside the
\* circle and radius - distance when it is inside, and null when the resulting radius
\* is <= 0; offsetRect moves every side outward by distance when the click point is
\* outside the rectangle and inward when it is strictly inside, returns null when the
\* resulting width or height is <= 0, and otherwise corners with p1 < p2 in both
\* coordinates.
C14_OffsetGrowsOutsideShrinksInside ==
    /\ geo.fn = "offsetCircle" =>
          LET d2 == Dist2(geo.center, geo.clickPoint)
          IN  /\ d2 > geo.radius * geo.radius =>
                    CircleOfRadius(geo.result, geo.center, geo.radius + geo.distance)
              /\ d2 < geo.radius * geo.radius =>
                    CircleOfRadius(geo.result, geo.center, geo.radius - geo.distance)
              /\ geo.result # Null => geo.result.r > 0
    /\ geo.fn = "offsetRect" =>
          /\ OutsideRect(geo.clickPoint, geo.p1, geo.p2) =>
                RectGrownBy(geo.result, geo.p1, geo.p2, geo.distance)
          /\ StrictlyInsideRect(geo.clickPoint, geo.p1, geo.p2) =>
                RectGrownBy(geo.result, geo.p1, geo.p2, -geo.distance)
          /\ geo.result # Null =>
                geo.result.p1.x < geo.result.p2.x /\ geo.result.p1.y < geo.result.p2.y

\* a rectangle given by its upper left and lower right corner, shrunk by a click inside
C14_Witness ==
    /\ geo.fn = "offsetRect"
    /\ geo.p1.x > geo.p2.x /\ geo.p1.y < geo.p2.y
    /\ StrictlyInsideRect(geo.clickPoint, geo.p1, geo.p2)
    /\ geo.distance > 0
    /\ geo.result # Null

----------------------------------------------------------------------------
(* findSnapPoints called twice on equal arguments                          *)

\* Two calls of findSnapPoints with the same arguments; the application's list
\* CAD.points, which line 709 reads when fromPoint is absent, is geo.cadPoints at the
\* first call and any list at the second
CallFindSnapPointsTwice ==
    /\ geo.fn = "args"
    /\ \E cadPointsAgain \in CadPointLists :
          geo' = Returned(geo, "findSnapPointsTwice",
                          findSnapPoints(geo.point, geo.entities, geo.snapModes, geo.tolerance,
                                         geo.gridSize, geo.fromPoint, geo.cadPoints, geo.tp1Closer))
                 @@ [again |-> findSnapPoints(geo.point, geo.entities, geo.snapModes, geo.tolerance,
                                              geo.gridSize, geo.fromPoint, cadPointsAgain, geo.tp1Closer),
                     cadPointsAgain |-> cadPointsAgain]
    /\ QTIdle

NextAmbient == CallFindSnapPointsTwice

SpecAmbient == InitSnap /\ [][NextAmbient]_vars

\* C15 (as claimed): two calls of findSnapPoints with equal arguments (cursor, entities,
\* modes, tolerance, grid size, fromPoint, also when fromPoint is null) return equal
\* results, whatever the application's state (CAD.points) is at each call.
C15_FindSnapPointsStateless ==
    geo.fn = "findSnapPointsTwice" => geo.again = geo.result

\* What holds of the code: the results are equal when a fromPoint is passed
SnapStatelessGivenFromPoint ==
    (geo.fn = "findSnapPointsTwice" /\ geo.fromPoint # Null) => geo.again = geo.result

----------------------------------------------------------------------------
(* hitTest and the bounding boxes of the entity classes                    *)

Least(S) == CHOOSE m \in S : \A n \in S : m <= n

Greatest(S) == CHOOSE m \in S : \A n \in S : m >= n

\* Utils.distToSegment(p, a, b) < tolerance, compared in squares: the distance to the
\* nearer end where the foot of p falls outside the segment, else the distance to the line
distToSegmentBelow(p, a, b, tolerance) ==
    LET l2 == Dist2(a, b)
        tn == Dot(Vector(a, p), Vector(a, b))
        cross == (b.x - a.x) * (p.y - a.y) - (b.y - a.y) * (p.x - a.x)
    IN  IF l2 = 0 \/ tn <= 0 THEN Dist2(p, a) < tolerance * tolerance
        ELSE IF tn >= l2 THEN Dist2(p, b) < tolerance * tolerance
        ELSE cross * cross < tolerance * tolerance * l2

\* Math.abs(Utils.dist(point, center) - r) < tolerance, compared in squares
distToCircleBelow(point, center, r, tolerance) ==
    /\ Dist2(point, center) < (r + tolerance) * (r + tolerance)
    /\ r - tolerance < 0 \/ Dist2(point, center) > (r - tolerance) * (r - tolerance)

\* entity.text.length * entity.height * 0.6
textWidth(text, height) == DivExact(Len(text) * height * 6, 10)

\* The loop of hitTest over the consecutive points of a list
nearSomeSegment(point, points, tolerance) ==
    \E i \in 1..(Len(points) - 1) : distToSegmentBelow(point, points[i], points[i + 1], tolerance)

\* Geometry.hitTest, the cases line, circle, arc, polyline, leader, text, donut,
\* dimension and point
hitTest(point, entity, tolerance) ==
    CASE entity.type = "line" -> distToSegmentBelow(point, entity.p1, entity.p2, tolerance)
      [] entity.type = "circle" -> distToCircleBelow(point, entity.center, entity.r, tolerance)
      [] entity.type = "arc" ->
            IF ~distToCircleBelow(point, entity.center, entity.r, tolerance) THEN FALSE
            ELSE isPointOnArc(point, entity)
      [] entity.type = "polyline" -> nearSomeSegment(point, entity.points, tolerance)
      [] entity.type = "leader" ->
            IF "points" \in DOMAIN entity /\ nearSomeSegment(point, entity.points, tolerance)
            THEN TRUE
            ELSE IF "text" \in DOMAIN entity /\ entity.text # <<>>
            THEN LET height == FieldOr(entity, "height", 10)
                     pos == IF "textPosition" \in DOMAIN entity THEN entity.textPosition
                            ELSE entity.points[Len(entity.points)]
                 IN  /\ point.x >= pos.x
                     /\ point.x <= pos.x + textWidth(entity.text, height)
                     /\ point.y >= pos.y - height
                     /\ point.y <= pos.y
            ELSE FALSE
      [] entity.type = "text" ->
            /\ point.x >= entity.position.x
            /\ point.x <= entity.position.x + textWidth(entity.text, entity.height)
            /\ point.y >= entity.position.y - entity.height
            /\ point.y <= entity.position.y
      [] entity.type = "donut" ->
            /\ \/ entity.innerRadius - tolerance <= 0
               \/ Dist2(point, entity.center)
                     >= (entity.innerRadius - tolerance) * (entity.innerRadius - tolerance)
            /\ Dist2(point, entity.center)
                  <= (entity.outerRadius + tolerance) * (entity.outerRadius + tolerance)
      [] entity.type = "dimension" ->
            CASE entity.dimType \in {"linear", "aligned"} ->
                    distToSegmentBelow(point, entity.p1, entity.p2, tolerance * 2)
              [] entity.dimType \in {"radius", "diameter"} ->
                    Dist2(point, entity.center)
                      < (entity.radius + tolerance) * (entity.radius + tolerance)
              [] entity.dimType = "ordinate" ->
                    distToSegmentBelow(point, entity.featurePoint, entity.leaderEnd, tolerance * 2)
              [] entity.dimType = "arclength" ->
                    distToCircleBelow(point, entity.center, entity.radius, tolerance * 2)
              [] OTHER -> FALSE
      [] entity.type = "point" -> Dist2(point, entity.position) < tolerance * tolerance

\* Circle.getBoundingBox
CircleBoundingBox(this) ==
    [minX |-> this.center.x - this.r, minY |-> this.center.y - this.r,
     maxX |-> this.center.x + this.r, maxY |-> this.center.y + this.r]

\* Arc.getBoundingBox: the box of the arc's two ends and of the quadrant points in range
ArcBoundingBox(this) ==
    LET normalize(angle) == LET a == JSRem(angle, TwoPi) IN IF a < 0 THEN a + TwoPi ELSE a
        start == normalize(this.start)
        end == normalize(this.end)
        inRange(angle) == IF start <= end THEN angle >= start /\ angle <= end
                          ELSE angle >= start \/ angle <= end
        angles == {this.start, this.end} \cup {q \in {0, 2, 4, 6} : inRange(q)}
        xs == {this.center.x + Cos(angle) * this.r : angle \in angles}
        ys == {this.center.y + Sin(angle) * this.r : angle \in angles}
    IN  [minX |-> Least(xs), minY |-> Least(ys), maxX |-> Greatest(xs), maxY |-> Greatest(ys)]

\* Text.getBoundingBox
TextBoundingBox(this) ==
    [minX |-> this.position.x, minY |-> this.position.y,
     maxX |-> this.position.x + textWidth(this.text, this.height),
     maxY |-> this.position.y + this.height]

\* entity.getBoundingBox() of the entity's class
BoundingBoxOf(entity) ==
    CASE entity.type = "line" -> getBoundingBox(entity)
      [] entity.type = "circle" -> CircleBoundingBox(entity)
      [] entity.type = "arc" -> ArcBoundingBox(entity)
      [] entity.type = "text" -> TextBoundingBox(entity)

HitEntities ==
    { Line(1, Pt(0, 0), Pt(4, 0)), Line(2, Pt(3, -3), Pt(-2, 2)), Line(3, Pt(-1, -2), Pt(2, 4)),
      Line(4, Pt(1, 1), Pt(1, 1)),
      [id |-> 5, type |-> "circle", center |-> Pt(0, 0), r |-> 4],
      [id |-> 6, type |-> "circle", center |-> Pt(1, -1), r |-> 1],
      [id |-> 7, type |-> "text", position |-> Pt(0, 0), text |-> <<"a", "b">>, height |-> 5],
      [id |-> 8, type |-> "text", position |-> Pt(-2, 1), text |-> <<"a">>, height |-> 5] }
      \cup { Arc(Pt(0, 0), 4, s, e) @@ [id |-> 9] : s \in {-2, 0, 2, 4, 6}, e \in {0, 2, 4, 6} }

HitTolerances == {1, 2}

\* The points tried on an entity; on an arc they lie on the axes and diagonals through
\* its centre
HitPoints(entity) ==
    IF entity.type = "arc"
    THEN { Pt(entity.center.x + k * dx, entity.center.y + k * dy) :
              k \in 2..6, dx \in {-1, 0, 1}, dy \in {-1, 0, 1} }
    ELSE { Pt(x, y) : x \in -7..7, y \in -7..7 }

InitHit ==
    /\ InitQTIdle
    /\ \E entity \in HitEntities, tolerance \in HitTolerances :
          \E point \in HitPoints(entity) :
             geo = [fn |-> "args", point |-> point, entity |-> entity, tolerance |-> tolerance]

\* hitTest(point, entity, tolerance), beside the box entity.getBoundingBox() reports
CallHitTest ==
    /\ geo.fn = "args"
    /\ geo' = Returned(geo, "hitTest", hitTest(geo.point, geo.entity, geo.tolerance))
              @@ [bbox |-> BoundingBoxOf(geo.entity)]
    /\ QTIdle

NextHit == CallHitTest

SpecHit == InitHit /\ [][NextHit]_vars

\* p lies inside the box enlarged by tol on every side
InEnlargedBox(p, bbox, tol) ==
    /\ bbox.minX - tol <= p.x /\ p.x <= bbox.maxX + tol
    /\ bbox.minY - tol <= p.y /\ p.y <= bbox.maxY + tol

\* C16 (as claimed): for a line, circle, arc or text and every point p,
\* hitTest(p, entity, tol) = true implies that p lies inside the bounding box the entity
\* reports, enlarged by tol on every side.
C16_HitInsideEnlargedBox ==
    (geo.fn = "hitTest" /\ geo.result) => InEnlargedBox(geo.point, geo.bbox, geo.tolerance)

\* What holds of the code: the same for lines, circles and arcs
HitInsideEnlargedBoxUnlessText ==
    (geo.fn = "hitTest" /\ geo.result /\ geo.entity.type # "text") =>
        InEnlargedBox(geo.point, geo.bbox, geo.tolerance)

----------------------------------------------------------------------------
(* extendLine: the end moved and the boundary point it is moved to         *)

\* The end of the line nearer to the click point, p2 when both are equally near
ExtendedEnd(entity, clickPoint) ==
    IF Dist2(clickPoint, entity.p1) < Dist2(clickPoint, entity.p2) THEN "p1" ELSE "p2"

\* The points in which the boundaries meet the line continued beyond that end, the end
\* itself left out, found by findIntersections
BoundaryPointsAhead(entity, clickPoint, allEntities) ==
    LET fromP1 == ExtendedEnd(entity, clickPoint) = "p1"
        refPoint == IF fromP1 THEN entity.p1 ELSE entity.p2
        other == IF fromP1 THEN entity.p2 ELSE entity.p1
        len == Dist(entity.p1, entity.p2)
        far == Pt(refPoint.x + DivExact((refPoint.x - other.x) * extendDist, len),
                  refPoint.y + DivExact((refPoint.y - other.y) * extendDist, len))
        ray == Line(0, refPoint, far)
    IN  UNION { SeqToSet(findIntersections(ray, allEntities[k])) :
                  k \in {i \in 1..Len(allEntities) : allEntities[i].id # entity.id} }
          \ {refPoint}

\* C17 (as claimed): extendLine moves only the end of the line nearer to the click point
\* (p2 when the distances are equal) and keeps the other end; the new end is the boundary
\* intersection strictly ahead of that end along the line's direction with the smallest
\* distance to it, and the result is null when no boundary has such an intersection.
C17_ExtendsToNearestBoundaryAhead ==
    (geo.fn = "extendLine" /\ geo.entity.type = "line") =>
        LET ahead == BoundaryPointsAhead(geo.entity, geo.clickPoint, geo.allEntities)
            fromP1 == ExtendedEnd(geo.entity, geo.clickPoint) = "p1"
            refPoint == IF fromP1 THEN geo.entity.p1 ELSE geo.entity.p2
        IN  IF ahead = {} THEN geo.result = Null
            ELSE /\ geo.result.type = "line"
                 /\ IF fromP1 THEN geo.result.p2 = geo.entity.p2 ELSE geo.result.p1 = geo.entity.p1
                 /\ LET new == IF fromP1 THEN geo.result.p1 ELSE geo.result.p2
                    IN  new \in ahead /\ \A q \in ahead : Dist2(refPoint, new) <= Dist2(refPoint, q)

\* What holds of the code: the same, when all boundaries are circles
ExtendsToNearestCircleAhead ==
    (\A k \in 1..Len(geo.allEntities) :
        geo.allEntities[k].id = geo.entity.id \/ geo.allEntities[k].type = "circle")
        => C17_ExtendsToNearestBoundaryAhead

\* a line extended to a circle
ExtendedToCircle ==
    /\ geo.fn = "extendLine" /\ geo.entity.type = "line"
    /\ geo.result # Null /\ geo.result # TypeError
    /\ geo.result.p1 = geo.entity.p1 /\ geo.result.p2 # geo.entity.p2

----------------------------------------------------------------------------
(* trimCircle *)

\* Array.prototype.sort of numbers under the comparator (a, b) => a - b
RECURSIVE SortNumbers(_)
SortNumbers(s) ==
    IF s = <<>> THEN <<>>
    ELSE LET front == SortNumbers(SubSeq(s, 1, Len(s) - 1))
             last == s[Len(s)]
             k == Cardinality({i \in 1..Len(front) : front[i] <= last})
         IN  SubSeq(front, 1, k) \o <<last>> \o SubSeq(front, k + 1, Len(front))

\* clickAngle lies in the interval from start to end, which passes through pi when
\* start > end
trimInArc(clickAngle, start, end) ==
    IF start <= end THEN clickAngle >= start /\ clickAngle <= end
    ELSE clickAngle >= start \/ clickAngle <= end

\* Geometry.trimCircle.  Of the list angles only the angles are read after the sort, so
\* the list of the angles alone is kept.
trimCircle(entity, clickPoint, allEntities) ==
    LET cuts == trimCutsRaw(entity, allEntities)
    IN  IF Len(cuts) < 2 THEN Null
        ELSE LET angles == SortNumbers([k \in 1..Len(cuts) |-> Angle(entity.center, cuts[k])])
                 n == Len(angles)
                 clickAngle == Angle(entity.center, clickPoint)
                 endOf(i) == angles[(i % n) + 1]
                 clicked == {i \in 1..n : trimInArc(clickAngle, angles[i], endOf(i))}
             IN  IF clicked = {} THEN Null
                 ELSE LET clickedI == Least(clicked)
                          arcAt(i) == [type |-> "arc", center |-> entity.center, r |-> entity.r,
                                       start |-> angles[i], end |-> endOf(i)]
                          kept == SelectSeq([i \in 1..n |-> i], LAMBDA i : i # clickedI)
                      IN  Array([j \in 1..Len(kept) |-> arcAt(kept[j])])

\* The circle trimmed, the entities that may be drawn across it, and the click points
TrimCircleScene ==
    [entity |-> [id |-> 1, type |-> "circle", center |-> Pt(0, 0), r |-> 5],
     pool |-> { Line(2, Pt(-8, 0), Pt(8, 0)),
                Line(3, Pt(0, -8), Pt(0, 8)),
                Line(4, Pt(0, 0), Pt(8, 0)),
                Line(5, Pt(5, -5), Pt(5, 5)),
                [id |-> 6, type |-> "circle", center |-> Pt(5, 5), r |-> 5],
                Line(7, Pt(0, 0), Pt(0, -9)),
                Line(8, Pt(7, -5), Pt(7, 5)),
                [id |-> 9, type |-> "rect", p1 |-> Pt(-5, -5), p2 |-> Pt(5, 5)],
                [id |-> 10, type |-> "polyline", points |-> <<Pt(-9, 0), Pt(-3, 0), Pt(-3, 2)>>] },
     clicks |-> {Pt(5, 0), Pt(4, 4), Pt(0, 6), Pt(-3, 3), Pt(-5, 0), Pt(-2, -2), Pt(0, -4), Pt(3, -3)}]

InitTrimCircle ==
    /\ InitQTIdle
    /\ \E others \in SUBSET TrimCircleScene.pool, click \in TrimCircleScene.clicks :
          /\ Cardinality(others) <= MaxOthers
          /\ geo = [fn |-> "args", entity |-> TrimCircleScene.entity, clickPoint |-> click,
                    allEntities |-> ListOf(others \cup {TrimCircleScene.entity})]

CallTrimCircle ==
    /\ geo.fn = "args"
    /\ geo' = Returned(geo, "trimCircle", trimCircle(geo.entity, geo.clickPoint, geo.allEntities))
    /\ QTIdle

NextTrimCircle == CallTrimCircle

SpecTrimCircle == InitTrimCircle /\ [][NextTrimCircle]_vars

\* The angles at which the circle is cut, each once
CutAngles(g) == { Angle(g.entity.center, p) : p \in CutPointSet(g) }

\* The intervals between consecutive cut angles, the last one leading from the greatest
\* angle through pi to the least
AngleIntervals(angles) ==
    { << a, IF \E b \in angles : b > a THEN Least({b \in angles : b > a}) ELSE Least(angles) >> :
        a \in angles }

\* Some entity other than the circle passes through a point where another one cuts it
CutTwice(g) ==
    Len(trimCutsRaw(g.entity, g.allEntities)) # Cardinality(CutPointSet(g))

\* C18 (as claimed): trimCircle on a circle with n >= 2 intersection points sorts their
\* angles, removes the interval between two consecutive cut angles (through pi where
\* it wraps) that contains the click angle, and returns exactly the other n - 1
\* intervals as arcs of the same centre and radius; with fewer than 2 intersection
\* points it returns null.
C18_TrimCircleKeepsOtherIntervals ==
    geo.fn = "trimCircle" =>
        LET angles == CutAngles(geo)
            n == Cardinality(angles)
            clickAngle == Angle(geo.entity.center, geo.clickPoint)
        IN  IF n < 2 THEN geo.result = Null
            ELSE /\ geo.result # Null
                 /\ Len(geo.result.items) = n - 1
                 /\ \A k \in 1..Len(geo.result.items) :
                       LET arc == geo.result.items[k]
                       IN  arc.type = "arc" /\ arc.center = geo.entity.center /\ arc.r = geo.entity.r
                 /\ \E removed \in AngleIntervals(angles) :
                       /\ trimInArc(clickAngle, removed[1], removed[2])
                       /\ { << geo.result.items[k].start, geo.result.items[k].end >> :
                              k \in 1..Len(geo.result.items) } = AngleIntervals(angles) \ {removed}

\* What holds of the code: the same, when no point of the circle is cut twice
TrimCircleConformsUnlessCutTwice ==
    (geo.fn = "trimCircle" /\ ~CutTwice(geo)) => C18_TrimCircleKeepsOtherIntervals

\* a circle cut at four points, three arcs returned
TrimCircleFourCuts ==
    /\ geo.fn = "trimCircle" /\ ~CutTwice(geo)
    /\ geo.result # Null /\ Len(geo.result.items) = 3

----------------------------------------------------------------------------
(* breakLine *)

\* The pieces of breakLine for the parameters tMin = dMin / lineLen and
\* tMax = dMax / lineLen: "tMin > 0.001" is 1000 * dMin > lineLen and "tMax < 0.999" is
\* 1000 * dMax < 999 * lineLen
breakPieces(entity, dMin, dMax, lineLen) ==
    LET dx == entity.p2.x - entity.p1.x
        dy == entity.p2.y - entity.p1.y
        at(d) == Pt(entity.p1.x + DivExact(d * dx, lineLen), entity.p1.y + DivExact(d * dy, lineLen))
    IN  (IF 1000 * dMin > lineLen
         THEN << [type |-> "line", p1 |-> entity.p1, p2 |-> at(dMin)] >> ELSE <<>>)
        \o (IF 1000 * dMax < 999 * lineLen
            THEN << [type |-> "line", p1 |-> at(dMax), p2 |-> entity.p2] >> ELSE <<>>)

\* faulty variant: the break points are taken in the order given
breakLineInOrder(entity, breakPoint1, breakPoint2) ==
    IF entity.type # "line" THEN Null
    ELSE LET proj1 == closestPointOnLine(breakPoint1, entity.p1, entity.p2)
             proj2 == closestPointOnLine(breakPoint2, entity.p1, entity.p2)
             lineLen == Dist(entity.p1, entity.p2)
         IN  IF lineLen = 0 THEN Array(<<>>)
             ELSE Array(breakPieces(entity, Dist(entity.p1, proj1), Dist(entity.p1, proj2), lineLen))

\* Geometry.breakLine.  On a line of length 0 both parameters are 0 / 0 = NaN, no
\* comparison with NaN is true and the empty list is returned.
breakLine(entity, breakPoint1, breakPoint2) ==
    IF entity.type # "line" THEN Null
    ELSE LET proj1 == closestPointOnLine(breakPoint1, entity.p1, entity.p2)
             proj2 == closestPointOnLine(breakPoint2, entity.p1, entity.p2)
             lineLen == Dist(entity.p1, entity.p2)
             d1 == Dist(entity.p1, proj1)
             d2 == Dist(entity.p1, proj2)
         IN  IF lineLen = 0 THEN Array(<<>>)
             ELSE Array(breakPieces(entity, Min(d1, d2), Max(d1, d2), lineLen))

\* The lines broken, each with the break points tried on it: points whose foot on the
\* line has whole coordinates.  On the line of length 1000 the feet 1, 2 and 998, 999 lie
\* at and next to the parameters 0.001 and 0.999.
BreakScenes ==
    { [entity |-> Line(1, Pt(0, 0), Pt(10, 0)),
       points |-> { Pt(x, y) : x \in {-2, 0, 1, 4, 5, 9, 10, 13}, y \in {0, 3} }],
      [entity |-> Line(2, Pt(6, 8), Pt(0, 0)),
       points |-> { Pt(3, 4), Pt(7, 1), Pt(-1, 7), Pt(6, 8), Pt(0, 0), Pt(10, 5), Pt(-4, 3),
                    Pt(-8, -6), Pt(12, 16) }],
      [entity |-> Line(3, Pt(0, 5), Pt(1000, 5)),
       points |-> { Pt(x, y) : x \in {0, 1, 2, 500, 998, 999, 1000}, y \in {5, 9} }],
      [entity |-> Line(4, Pt(2, 1), Pt(2, 1)),
       points |-> { Pt(2, 1), Pt(0, 0), Pt(5, 1) }],
      [entity |-> [id |-> 5, type |-> "circle", center |-> Pt(0, 0), r |-> 5],
       points |-> { Pt(5, 0), Pt(0, 5) }] }

InitBreak ==
    /\ InitQTIdle
    /\ \E sc \in BreakScenes :
         \E b1 \in sc.points, b2 \in sc.points :
            geo = [fn |-> "args", entity |-> sc.entity, breakPoint1 |-> b1, breakPoint2 |-> b2]

\* breakLine(entity, b1, b2) and breakLine(entity, b2, b1)
CallBreakLine ==
    /\ geo.fn = "args"
    /\ geo' = Returned(geo, "breakLine", breakLine(geo.entity, geo.breakPoint1, geo.breakPoint2))
              @@ [swapped |-> breakLine(geo.entity, geo.breakPoint2, geo.breakPoint1)]
    /\ QTIdle

NextBreak == CallBreakLine

SpecBreak == InitBreak /\ [][NextBreak]_vars

\* q lies on the segment from a to b
OnSegment(q, a, b) ==
    /\ OnInfiniteLine(q, a, b) \/ a = b
    /\ Min(a.x, b.x) <= q.x /\ q.x <= Max(a.x, b.x)
    /\ Min(a.y, b.y) <= q.y /\ q.y <= Max(a.y, b.y)

\* The parameter of the foot of b on the line entity, kept within the segment, as a
\* numerator over the squared length
FootParam(entity, b) ==
    Max(0, Min(Dist2(entity.p1, entity.p2), Dot(Vector(entity.p1, b), Vector(entity.p1, entity.p2))))

\* The point of the line at the parameter tn over the squared length
PointAtParam(entity, tn) ==
    Pt(entity.p1.x + DivExact(tn * (entity.p2.x - entity.p1.x), Dist2(entity.p1, entity.p2)),
       entity.p1.y + DivExact(tn * (entity.p2.y - entity.p1.y), Dist2(entity.p1, entity.p2)))

\* C19: breakLine(entity, b1, b2) projects both break points onto the segment, orders
\* the parameters as tMin <= tMax, and returns the piece from p1 to tMin only if
\* tMin > 0.001 and the piece from tMax to p2 only if tMax < 0.999: the result has 0, 1
\* or 2 lines, each a sub-segment of the original, and is the same whichever order b1
\* and b2 are given in.
C19_BreakLinePieces ==
    (geo.fn = "breakLine" /\ geo.entity.type = "line") =>
        LET e == geo.entity
            l2 == Dist2(e.p1, e.p2)
            pieces == geo.result.items
            ta == FootParam(e, geo.breakPoint1)
            tb == FootParam(e, geo.breakPoint2)
            tMin == Min(ta, tb)
            tMax == Max(ta, tb)
        IN  /\ geo.result # Null
            /\ geo.swapped = geo.result
            /\ Len(pieces) \in {0, 1, 2}
            /\ \A k \in 1..Len(pieces) :
                  /\ pieces[k].type = "line"
                  /\ OnSegment(pieces[k].p1, e.p1, e.p2) /\ OnSegment(pieces[k].p2, e.p1, e.p2)
            /\ l2 > 0 =>
                  pieces = (IF 1000 * tMin > l2
                            THEN << [type |-> "line", p1 |-> e.p1, p2 |-> PointAtParam(e, tMin)] >>
                            ELSE <<>>)
                           \o (IF 1000 * tMax < 999 * l2
                               THEN << [type |-> "line", p1 |-> PointAtParam(e, tMax), p2 |-> e.p2] >>
                               ELSE <<>>)

\* a line broken between two points given from the far one to the near one: two pieces
C19_Witness ==
    /\ geo.fn = "breakLine" /\ geo.entity.type = "line"
    /\ FootParam(geo.entity, geo.breakPoint1) > FootParam(geo.entity, geo.breakPoint2)
    /\ geo.result # Null /\ Len(geo.result.items) = 2
    /\ geo.result.items[1].p2 # geo.result.items[2].p1

----------------------------------------------------------------------------
(* offsetPolyline.  The polylines offered run along the axes (one runs along a 3-4-5
   direction), so that offsets, corners and the angles of the fillet arcs are exact.   *)

\* Geometry.offsetLine
offsetLine(p1, p2, distance, side) ==
    LET dx == p2.x - p1.x
        dy == p2.y - p1.y
        len == Dist(p1, p2)
        d == distance * side
    IN  IF len = 0 THEN Null
        ELSE LET ox == DivExact((0 - dy) * d, len)
                 oy == DivExact(dx * d, len)
             IN  [p1 |-> Pt(p1.x + ox, p1.y + oy), p2 |-> Pt(p2.x + ox, p2.y + oy)]

\* Geometry.getOffsetSide
getOffsetSide(lineP1, lineP2, clickPoint) ==
    LET dx == lineP2.x - lineP1.x
        dy == lineP2.y - lineP1.y
        nx == 0 - dy
        ny == dx
        vx == clickPoint.x - lineP1.x
        vy == clickPoint.y - lineP1.y
    IN  IF vx * nx + vy * ny > 0 THEN 1 ELSE -1

\* isPolygonClosed, on whole coordinates
isPolygonClosed(points) ==
    IF Len(points) < 3 THEN FALSE ELSE points[1] = points[Len(points)]

\* The point center + radius * (cos, sin) of an angle given in units of pi/8: a point
\* of whole coordinates on the axes through center, and a point named by its angle
\* elsewhere
ArcSample(center, radius, a16) ==
    IF a16 % 4 = 0
    THEN Pt(center.x + radius * Cos(a16 \div 2), center.y + radius * Sin(a16 \div 2))
    ELSE [center |-> center, r |-> radius, angle16 |-> a16 % 16]

\* while (deltaAngle > Math.PI) deltaAngle -= 2 * Math.PI;
\* while (deltaAngle < -Math.PI) deltaAngle += 2 * Math.PI
RECURSIVE ShortestTurn(_)
ShortestTurn(delta) ==
    IF delta > 4 THEN ShortestTurn(delta - TwoPi)
    ELSE IF delta < -4 THEN ShortestTurn(delta + TwoPi)
    ELSE delta

\* Geometry.createFilletArc.  Math.ceil(Math.abs(deltaAngle) / (Math.PI / 8)) is
\* 2 * |deltaAngle| for deltaAngle in units of pi/4.
createFilletArc(p1, p2, center, radius) ==
    LET angle1 == Atan2(p1.y - center.y, p1.x - center.x)
        angle2 == Atan2(p2.y - center.y, p2.x - center.x)
        deltaAngle == ShortestTurn(angle2 - angle1)
        numSegments == Max(3, 2 * Abs(deltaAngle))
    IN  [k \in 1..(numSegments + 1) |->
            ArcSample(center, radius, 2 * angle1 + DivExact(2 * (k - 1) * deltaAngle, numSegments))]

\* handleCorner of offsetPolyline.  Under Extend the two calls of pointOnLineExtended
\* decide nothing: [inter] is returned whenever inter is not null.
handleCorner(line1, line2, originalCorner, distance, gapType) ==
    LET inter == lineLineIntersection(line1.p1, line1.p2, line2.p1, line2.p2)
    IN  CASE gapType = 1 ->
                LET arcPoints == createFilletArc(line1.p2, line2.p1, originalCorner, distance)
                IN  IF Len(arcPoints) > 0 THEN arcPoints
                    ELSE IF inter # Null THEN <<inter>> ELSE <<line1.p2, line2.p1>>
          [] gapType = 2 -> <<line1.p2, line2.p1>>
          [] OTHER -> IF inter # Null THEN <<inter>> ELSE <<line1.p2>>

\* The first loop of offsetPolyline: the index (from 1) of the first segment at the
\* least distance from the click point
offsetClosestIdx(points, clickPoint) ==
    LET d2(i) == Dist2(clickPoint, closestPointOnSegment(clickPoint, points[i], points[i + 1]))
    IN  CHOOSE i \in 1..(Len(points) - 1) :
            /\ \A j \in 1..(Len(points) - 1) : d2(i) <= d2(j)
            /\ \A j \in 1..(i - 1) : d2(i) < d2(j)

\* faulty variant: the list ends with the end of the last offset line also when the
\* polyline is closed
offsetLastPointOpen(newPoints, offsetLines, isClosed) ==
    Append(newPoints, offsetLines[Len(offsetLines)].p2)

\* The end of offsetPolyline: newPoints.push(newPoints[0]) on a closed polyline,
\* newPoints.push(offsetLines[offsetLines.length - 1].p2) on an open one
offsetLastPoint(newPoints, offsetLines, isClosed) ==
    IF isClosed THEN Append(newPoints, newPoints[1])
    ELSE Append(newPoints, offsetLines[Len(offsetLines)].p2)

\* Geometry.offsetPolyline; gapType is CAD.offsetGapType || 0
offsetPolyline(entity, distance, clickPoint, gapType) ==
    IF Len(entity.points) < 2 THEN Null
    ELSE LET points == entity.points
             closestIdx == offsetClosestIdx(points, clickPoint)
             side == getOffsetSide(points[closestIdx], points[closestIdx + 1], clickPoint)
             offsets == [i \in 1..(Len(points) - 1) |->
                            offsetLine(points[i], points[i + 1], distance, side)]
             offsetLines == SelectSeq(offsets, LAMBDA o : o # Null)
             n == Len(offsetLines)
             isClosed == isPolygonClosed(points)
         IN  IF n = 0 THEN Null
             ELSE LET first == IF isClosed
                               THEN handleCorner(offsetLines[n], offsetLines[1], points[1],
                                                 distance, gapType)
                               ELSE <<offsetLines[1].p1>>
                      corners == Concat([i \in 1..(n - 1) |->
                                    handleCorner(offsetLines[i], offsetLines[i + 1], points[i + 1],
                                                 distance, gapType)])
                  IN  [points |-> offsetLastPoint(first \o corners, offsetLines, isClosed)]

\* The polylines offset, each with the distances and the click points tried on it, and
\* whether fillet arcs can be drawn at its corners in whole units of pi/8
OffsetPolylineScenes ==
    { [points |-> <<Pt(0, 0), Pt(10, 0), Pt(10, 10), Pt(0, 10), Pt(0, 0)>>,
       distances |-> {1, 2}, clicks |-> {Pt(5, 3), Pt(5, -3), Pt(12, 5), Pt(8, 5)}, arcs |-> TRUE],
      [points |-> <<Pt(0, 0), Pt(0, 6), Pt(8, 6), Pt(8, 0), Pt(4, 0), Pt(4, 3), Pt(2, 3), Pt(2, 0), Pt(0, 0)>>,
       distances |-> {1}, clicks |-> {Pt(1, 5), Pt(-2, 3), Pt(3, 4)}, arcs |-> TRUE],
      [points |-> <<Pt(0, 0), Pt(6, 0), Pt(0, 0)>>,
       distances |-> {1, 2}, clicks |-> {Pt(3, 1), Pt(3, -1)}, arcs |-> TRUE],
      [points |-> <<Pt(0, 0), Pt(10, 0), Pt(10, 10)>>,
       distances |-> {1, 2}, clicks |-> {Pt(5, 3), Pt(5, -3), Pt(12, 5)}, arcs |-> TRUE],
      [points |-> <<Pt(0, 0), Pt(4, 0), Pt(4, 4), Pt(8, 4), Pt(8, 0)>>,
       distances |-> {1, 2}, clicks |-> {Pt(2, 1), Pt(2, -2), Pt(6, 6)}, arcs |-> TRUE],
      [points |-> <<Pt(0, 0), Pt(0, 5)>>,
       distances |-> {1, 2}, clicks |-> {Pt(1, 1), Pt(-1, 1)}, arcs |-> TRUE],
      [points |-> <<Pt(0, 0), Pt(3, 4), Pt(6, 8)>>,
       distances |-> {5}, clicks |-> {Pt(-4, 3), Pt(4, -3)}, arcs |-> FALSE],
      [points |-> <<Pt(2, 2)>>,
       distances |-> {1}, clicks |-> {Pt(0, 0)}, arcs |-> TRUE] }

\* CAD.offsetGapType: 0 = Extend, 1 = Fillet, 2 = Chamfer
GapTypes == {0, 1, 2}

InitOffsetPolyline ==
    /\ InitQTIdle
    /\ \E sc \in OffsetPolylineScenes :
         \E distance \in sc.distances, click \in sc.clicks, gapType \in GapTypes :
            /\ gapType = 1 => sc.arcs
            /\ geo = [fn |-> "args", entity |-> [id |-> 1, type |-> "polyline", points |-> sc.points],
                      distance |-> distance, clickPoint |-> click, gapType |-> gapType]

CallOffsetPolyline ==
    /\ geo.fn = "args"
    /\ geo' = Returned(geo, "offsetPolyline",
                       offsetPolyline(geo.entity, geo.distance, geo.clickPoint, geo.gapType))
    /\ QTIdle

NextOffsetPolyline == CallOffsetPolyline

SpecOffsetPolyline == InitOffsetPolyline /\ [][NextOffsetPolyline]_vars

\* q lies on a line parallel to the line through a and b, at the given distance from it
AtDistanceFromLine(q, a, b, distance) ==
    LET cross == (b.x - a.x) * (q.y - a.y) - (b.y - a.y) * (q.x - a.x)
    IN  cross * cross = distance * distance * Dist2(a, b)

\* q is the vertex v of the segment from a to b moved by the given distance square to
\* the segment
OffsetImage(q, v, a, b, distance) ==
    /\ "x" \in DOMAIN q
    /\ Dist2(q, v) = distance * distance
    /\ Dot(Vector(v, q), Vector(a, b)) = 0

\* C20: under each gap policy (Extend, Fillet, Chamfer) offsetPolyline on a closed
\* polyline (first vertex = last vertex) reconciles the corner between the last and the
\* first offset segment before the other corners, so that the list returned begins on
\* the offset of the last segment, and the first and last points returned are identical;
\* on an open polyline the first and last points returned are the offset images of the
\* original first and last vertices.
C20_OffsetPolylineEnds ==
    (geo.fn = "offsetPolyline" /\ geo.result # Null) =>
        LET pts == geo.entity.points
            n == Len(pts)
            out == geo.result.points
        IN  /\ Len(out) >= 2
            /\ IF pts[1] = pts[n]
               THEN /\ out[Len(out)] = out[1]
                    /\ "x" \in DOMAIN out[1]
                    /\ AtDistanceFromLine(out[1], pts[n - 1], pts[n], geo.distance)
               ELSE /\ OffsetImage(out[1], pts[1], pts[1], pts[2], geo.distance)
                    /\ OffsetImage(out[Len(out)], pts[n], pts[n - 1], pts[n], geo.distance)

\* a closed polyline offset with fillet arcs at its corners
C20_Witness ==
    /\ geo.fn = "offsetPolyline" /\ geo.gapType = 1
    /\ geo.entity.points[1] = geo.entity.points[Len(geo.entity.points)]
    /\ geo.result # Null
    /\ Len(geo.result.points) > Len(geo.entity.points)
    /\ geo.result.points[Len(geo.result.points)] = geo.result.points[1]

----------------------------------------------------------------------------
(* filletLines with a radius                                                *)

\* C21 (as claimed): for radius > 0 and two lines whose infinite lines intersect at a
\* non-zero angle (two lines that share an endpoint at the corner included),
\* filletLines returns an arc of that radius whose start and end points are the new
\* endpoints of the trimmed line1 and line2, each at distance exactly radius from the
\* arc centre, the arc centre being at distance radius from both lines.
C21_FilletArcTouchesBothLines ==
    (/\ geo.fn = "filletLines" /\ geo.radius > 0
     /\ ~Parallel(geo.line1.p1, geo.line1.p2, geo.line2.p1, geo.line2.p2)) =>
        /\ geo.result # Null
        /\ geo.result.arc # Null
        /\ LET arc == geo.result.arc
               startPoint == polarPoint(arc.center, arc.start, arc.r)
               endPoint == polarPoint(arc.center, arc.end, arc.r)
           IN  /\ arc.type = "arc" /\ arc.r = geo.radius
               /\ startPoint \in {geo.result.line1.p1, geo.result.line1.p2}
               /\ endPoint \in {geo.result.line2.p1, geo.result.line2.p2}
               /\ Dist2(arc.center, startPoint) = geo.radius * geo.radius
               /\ Dist2(arc.center, endPoint) = geo.radius * geo.radius
               /\ AtDistanceFromLine(arc.center, geo.line1.p1, geo.line1.p2, geo.radius)
               /\ AtDistanceFromLine(arc.center, geo.line2.p1, geo.line2.p2, geo.radius)

\* One of the lines begins at the corner: its p1 is the intersection point
BeginsAtCorner(g) ==
    LET x == lineLineIntersection(g.line1.p1, g.line1.p2, g.line2.p1, g.line2.p2)
    IN  x \in {g.line1.p1, g.line2.p1}

\* What holds of the code: the same, when neither line begins at the corner
FilletArcTouchesUnlessAtCorner ==
    (geo.fn = "filletLines" /\ geo.radius > 0 /\ ~BeginsAtCorner(geo)) =>
        C21_FilletArcTouchesBothLines

----------------------------------------------------------------------------
(* Apparent intersections of two lines                                      *)

\* _paramOnSegment(ip, p1, p2) < 0 || > 1, on the point ip as lineLineIntersection
\* computed it.  ip is rounded, so the parameter of a point at an end of the segment
\* comes out just below 0 (err < 0), exact (err = 0) or just above 1 (err > 0)
paramOutside(ip, p1, p2, err) ==
    LET len2 == Dist2(p1, p2)
        tn == Dot(Vector(p1, ip), Vector(p1, p2))
    IN  /\ len2 # 0
        /\ \/ tn < 0
           \/ tn > len2
           \/ tn = 0 /\ err < 0
           \/ tn = len2 /\ err > 0

\* Geometry._findApparentIntersections in floating point: err1 and err2 are the signs
\* of the rounding errors of the two parameters
_findApparentIntersectionsRounded(ent1, ent2, err1, err2) ==
    IF ent1.type = "line" /\ ent2.type = "line"
    THEN LET ip == lineLineIntersection(ent1.p1, ent1.p2, ent2.p1, ent2.p2)
         IN  IF ip # Null /\ (\/ paramOutside(ip, ent1.p1, ent1.p2, err1)
                              \/ paramOutside(ip, ent2.p1, ent2.p2, err2))
             THEN <<ip>> ELSE <<>>
    ELSE <<>>

\* The lines paired: crossing, meeting at a corner, ending on one another, parallel,
\* and meeting only when extended
AppIntLines ==
    { Line(1, Pt(0, 0), Pt(8, 0)), Line(2, Pt(4, -4), Pt(4, 4)), Line(3, Pt(8, 0), Pt(8, 6)),
      Line(4, Pt(4, 6), Pt(4, 0)), Line(5, Pt(12, -2), Pt(12, 4)), Line(6, Pt(0, 3), Pt(8, 3)),
      Line(7, Pt(0, 0), Pt(6, 6)), Line(8, Pt(6, 0), Pt(0, 6)), Line(9, Pt(10, 2), Pt(14, 2)) }

RoundingSigns == {-1, 0, 1}

InitAppInt ==
    /\ InitQTIdle
    /\ \E ent1 \in AppIntLines, ent2 \in AppIntLines, tol \in Tolerances :
         LET ip == lineLineIntersection(ent1.p1, ent1.p2, ent2.p1, ent2.p2)
         IN  \E cursor \in (IF ip = Null THEN {Pt(1, 1)}
                            ELSE {ip, Pt(ip.x + 2, ip.y), Pt(ip.x, ip.y - 5)}) :
                /\ ent1 # ent2
                /\ geo = [fn |-> "args", point |-> cursor, entities |-> <<ent1, ent2>>,
                          tolerance |-> tol]

\* The two pair loops of findSnapPoints on a drawing of two lines, with both modes
\* enabled: the intersection and the appint candidates
CallApparentIntersections ==
    /\ geo.fn = "args"
    /\ \E err1 \in RoundingSigns, err2 \in RoundingSigns :
         LET appInts == _findApparentIntersectionsRounded(geo.entities[1], geo.entities[2],
                                                          err1, err2)
         IN  geo' = Returned(geo, "_findApparentIntersections", Array(appInts))
                    @@ [err1 |-> err1, err2 |-> err2,
                        snaps |-> pairSnaps(geo.point, geo.entities, geo.tolerance,
                                            "intersection")
                                  \o SnapsWithin(geo.point, appInts, "appint", geo.tolerance)]
    /\ QTIdle

NextAppInt == CallApparentIntersections

SpecAppInt == InitAppInt /\ [][NextAppInt]_vars

\* The parameter of the point q on the segment from a to b lies outside [0,1]
OutsideSegment(q, a, b) ==
    Dot(Vector(a, q), Vector(a, b)) < 0 \/ Dot(Vector(a, q), Vector(a, b)) > Dist2(a, b)

\* C22 (as claimed): for two line entities, _findApparentIntersections yields the
\* intersection of their infinite lines if and only if that point's parameter is outside
\* [0,1] on at least one of the two segments, so that no point of a pair of lines is
\* offered by findSnapPoints both as an intersection candidate and as an appint candidate.
C22_ApparentIffOutsideASegment ==
    geo.fn = "_findApparentIntersections" =>
        LET ent1 == geo.entities[1]
            ent2 == geo.entities[2]
            ip == lineLineIntersection(ent1.p1, ent1.p2, ent2.p1, ent2.p2)
        IN  /\ ip = Null => geo.result = Array(<<>>)
            /\ ip # Null =>
                 (geo.result = Array(<<ip>>)
                    <=> (OutsideSegment(ip, ent1.p1, ent1.p2) \/ OutsideSegment(ip, ent2.p1, ent2.p2)))
            /\ ip # Null => geo.result \in {Array(<<ip>>), Array(<<>>)}
            /\ \A a \in OfKind(geo, "intersection"), b \in OfKind(geo, "appint") :
                 a.point # b.point

\* The lines meet at an end of one of them
MeetAtAnEnd(g) ==
    LET ip == lineLineIntersection(g.entities[1].p1, g.entities[1].p2,
                                   g.entities[2].p1, g.entities[2].p2)
    IN  ip \in {g.entities[1].p1, g.entities[1].p2, g.entities[2].p1, g.entities[2].p2}

\* What holds of the code: the same, when the lines do not meet at an end of one of them
ApparentIffOutsideUnlessAtAnEnd ==
    (geo.fn = "_findApparentIntersections" /\ ~MeetAtAnEnd(geo)) =>
        C22_ApparentIffOutsideASegment

\* A line ending on another is offered at one point as intersection and as appint
AppIntOfferedTwice ==
    /\ geo.fn = "_findApparentIntersections"
    /\ geo.entities = <<Line(1, Pt(0, 0), Pt(8, 0)), Line(4, Pt(4, 6), Pt(4, 0))>>
    /\ \E a \in OfKind(geo, "intersection"), b \in OfKind(geo, "appint") : a.point = b.point

----------------------------------------------------------------------------
(* Tangent snap                                                             *)

\* The points a tangent is drawn from, all outside SnapCircle, and one inside it
TangentFromPoints == {Pt(15, 0), Pt(65, 0), Pt(40, 25), Pt(40, 5)}

\* The cursor positions tried: the tangent points of SnapCircle as seen from the
\* from-points outside it, and points beside them
TangentCursors == {Pt(31, 12), Pt(31, -12), Pt(49, 12), Pt(49, -12), Pt(28, 9), Pt(52, 9),
                   Pt(25, 0), Pt(40, 15), Pt(40, -14)}

InitTangent ==
    /\ InitQTIdle
    /\ \E cursor \in TangentCursors, from \in TangentFromPoints, tol \in Tolerances,
          modes \in {{"tangent"}, {"tangent", "nearest"}, {"nearest"}}, tp1Closer \in BOOLEAN :
          geo = [fn |-> "args", point |-> cursor, entities |-> <<SnapCircle>>,
                 snapModes |-> modes, tolerance |-> tol, gridSize |-> 4,
                 fromPoint |-> from, cadPoints |-> <<>>, tp1Closer |-> tp1Closer]

NextTangent == CallFindSnapPoints

SpecTangent == InitTangent /\ [][NextTangent]_vars

\* q is a point of the circle where the line from the point from touches it
IsTangentPoint(q, from, circle) ==
    /\ Dist2(circle.center, q) = circle.r * circle.r
    /\ Dot(Vector(circle.center, q), Vector(from, q)) = 0

\* The call has tangent mode enabled, a from-point strictly outside the circle and the
\* cursor on a tangent point of the circle as seen from the from-point
CursorOnTangentPoint(g) ==
    /\ "tangent" \in g.snapModes
    /\ g.entities = <<SnapCircle>>
    /\ Dist2(SnapCircle.center, g.fromPoint) > SnapCircle.r * SnapCircle.r
    /\ IsTangentPoint(g.point, g.fromPoint, SnapCircle)

\* C23 (as claimed): with tangent mode enabled, a from-point strictly outside a circle
\* and the cursor on either one of the two tangent points of the circle as seen from the
\* from-point, findSnapPoints generates a tangent candidate located at the tangent point
\* under the cursor: both tangent points are reachable by snapping.
C23_BothTangentPointsReachable ==
    (geo.fn = "findSnapPoints" /\ CursorOnTangentPoint(geo)) =>
        \E s \in OfKind(geo, "tangent") : s.point = geo.point

\* What holds of the code: the tangent candidate lies under the cursor exactly when the
\* cursor is on the one tangent point that the comparison of the two equal distances
\* from the from-point selects; on the other tangent point there is no candidate under
\* the cursor, and one at the selected point only within twice the tolerance
TangentCandidateAtSelectedPoint ==
    (geo.fn = "findSnapPoints" /\ CursorOnTangentPoint(geo)) =>
        LET selected == getTangentPoint(geo.fromPoint, SnapCircle, geo.tp1Closer)
        IN  /\ IsTangentPoint(selected, geo.fromPoint, SnapCircle)
            /\ \A s \in OfKind(geo, "tangent") : s.point = selected
            /\ (OfKind(geo, "tangent") # {})
                 <=> (Dist2(geo.point, selected) < 4 * geo.tolerance * geo.tolerance)
            /\ (geo.point # selected /\ geo.tolerance = 3) => geo.result = Null \/ geo.result.type = "nearest"

\* The cursor is on a tangent point and the call returns no candidate
TangentPointUnreachable ==
    /\ geo.fn = "findSnapPoints" /\ CursorOnTangentPoint(geo)
    /\ geo.fromPoint = Pt(65, 0) /\ geo.point = Pt(49, 12) /\ ~geo.tp1Closer
    /\ geo.snapModes = {"tangent"} /\ geo.result = Null

----------------------------------------------------------------------------
(* QuadTree: the shape of the tree                                          *)

\* The node and every node below it
RECURSIVE NodesOf(_)
NodesOf(node) ==
    {node} \cup (IF node.divided
                 THEN UNION {NodesOf(node.children[k]) : k \in 1..4}
                 ELSE {})

\* C24 (as claimed): after any sequence of insert and clear calls, a subdivided node
\* stores no entities itself, a leaf stores at most capacity entities, and every entity
\* whose insert returned true is referenced by every leaf whose boundary intersects the
\* entity's bounding box.
C24_NodeInvariant ==
    \A node \in NodesOf(tree) :
        /\ node.divided => node.entities = <<>>
        /\ ~node.divided =>
             /\ Len(node.entities) <= node.capacity
             /\ \A i \in accepted :
                  _bboxIntersects(getBoundingBox(QTEntity(i)), node.boundary)
                     => i \in OutIds(node.entities)

\* What holds of the code: the same, as long as no insert has ended in RangeError
NodeInvariantUnlessThrown == ~qtFailed => C24_NodeInvariant

\* An insert has ended in RangeError and an entity accepted before it is missing from a
\* leaf that its bounding box intersects
AcceptedEntityLost ==
    /\ qtFailed
    /\ \E node \in NodesOf(tree), i \in accepted :
         /\ ~node.divided
         /\ _bboxIntersects(getBoundingBox(QTEntity(i)), node.boundary)
         /\ i \notin OutIds(node.entities)

----------------------------------------------------------------------------
(* QuadTree: clear                                                          *)

\* C25: after clear() the tree cannot be told from a freshly constructed tree with the
\* same boundary and capacity: it is an undivided leaf with no entities and no children,
\* retrieve returns the empty list for every range, and every insert, and every
\* retrieve after it, gives what it gives on the fresh tree.
C25_ClearedEqualsFresh ==
    qtLast.op = "clear" =>
        LET fresh == NewQuadTree(tree.boundary, tree.capacity)
        IN  /\ ~tree.divided /\ tree.entities = <<>> /\ tree.children = <<>>
            /\ tree.boundary \in QTBoundaries /\ tree.capacity \in QTCapacities
            /\ \A range \in QTRanges : retrieve(tree, range, <<>>, {}).out = <<>>
            /\ \A e \in QTEntities :
                 /\ insert(tree, e, 1) = insert(fresh, e, 1)
                 /\ \A range \in QTRanges :
                      retrieve(insert(tree, e, 1).node, range, <<>>, {})
                        = retrieve(insert(fresh, e, 1).node, range, <<>>, {})

\* clear() was called on a tree that an insert ending in RangeError had left subdivided
C25_Witness ==
    /\ qtLast.op = "clear" /\ qtFailed
    /\ tree = NewQuadTree(Rectangle(0, 0, 32, 32), 1)

----------------------------------------------------------------------------
(* trimLine: the order of the pieces                                        *)

\* C26: the line entities returned by trimLine are sub-segments of the original line,
\* each spanning two consecutive cut points, listed in increasing distance from the
\* original p1 and pairwise non-overlapping; none overlaps the removed clicked interval
\* and none is shorter than 1e-3 (on integer points: none has length 0).
C26_PiecesOrderedAndDisjoint ==
    (geo.fn = "trimLine" /\ geo.result # Null) =>
        LET items == geo.result.items
            p1 == geo.entity.p1
            I == Intervals(p1, CutPointSet(geo) \cup {geo.entity.p1, geo.entity.p2})
        IN  /\ \A k \in 1..Len(items) :
                  /\ items[k].type = "line"
                  /\ OnSegment(items[k].p1, geo.entity.p1, geo.entity.p2)
                  /\ OnSegment(items[k].p2, geo.entity.p1, geo.entity.p2)
                  /\ <<items[k].p1, items[k].p2>> \in I
                  /\ Dist2(items[k].p1, items[k].p2) > 0
            /\ \A k \in 1..(Len(items) - 1) :
                  Dist2(p1, items[k].p2) <= Dist2(p1, items[k + 1].p1)
            /\ \E rem \in I :
                  /\ \A o \in I : MidDist(geo.clickPoint, rem[1], rem[2])
                                     <= MidDist(geo.clickPoint, o[1], o[2])
                  /\ \A k \in 1..Len(items) :
                        \/ Dist2(p1, items[k].p2) <= Dist2(p1, rem[1])
                        \/ Dist2(p1, rem[2]) <= Dist2(p1, items[k].p1)

\* Pieces are returned on both sides of the removed interval, on a line that is not
\* parallel to an axis
C26_Witness ==
    /\ geo.fn = "trimLine" /\ geo.result # Null
    /\ geo.entity.p2 = Pt(12, 16)
    /\ Len(geo.result.items) >= 3
    /\ geo.result.items[1].p1 = geo.entity.p1
    /\ geo.result.items[Len(geo.result.items)].p2 = geo.entity.p2
    /\ \E k \in 1..(Len(geo.result.items) - 1) :
          geo.result.items[k].p2 # geo.result.items[k + 1].p1

----------------------------------------------------------------------------
(* trimCircle: degenerate arcs                                              *)

\* C27 (as claimed): every arc returned by trimCircle has a non-zero angular sweep
\* (start differs from end), also when two different boundary entities cut the circle
\* at the same point.
C27_NoZeroSweepArc ==
    (geo.fn = "trimCircle" /\ geo.result # Null) =>
        \A k \in 1..Len(geo.result.items) :
            geo.result.items[k].start # geo.result.items[k].end

\* What holds of the code: no arc of zero sweep when no point of the circle is cut twice
NoZeroSweepArcUnlessCutTwice ==
    (geo.fn = "trimCircle" /\ ~CutTwice(geo)) => C27_NoZeroSweepArc

\* Two lines cut the circle at (5,0); an arc from 0 to 0 is returned
ZeroSweepArcReturned ==
    /\ geo.fn = "trimCircle" /\ CutTwice(geo) /\ geo.result # Null
    /\ {geo.allEntities[k].id : k \in 1..Len(geo.allEntities)} = {1, 2, 4}
    /\ \E k \in 1..Len(geo.result.items) :
          geo.result.items[k].start = 0 /\ geo.result.items[k].end = 0

----------------------------------------------------------------------------
(* findSnapPoints: how far the returned candidate lies                      *)

\* The kinds accepted within the tolerance, and those accepted within twice the tolerance
SnapKindsWithinTolerance ==
    {"endpoint", "midpoint", "center", "quadrant", "node", "nearest", "intersection", "appint"}

SnapKindsWithinTwice == {"perpendicular", "tangent"}

\* C28: a non-null result of findSnapPoints has a kind whose mode is enabled in
\* snapModes; it lies strictly nearer to the cursor than tolerance for the kinds
\* endpoint, midpoint, center, quadrant, node, nearest, intersection and appint, and
\* strictly nearer than 2 x tolerance for perpendicular and tangent; only a grid
\* candidate may lie farther away.
C28_ResultEnabledAndWithinTolerance ==
    (geo.fn = "findSnapPoints" /\ geo.result # Null) =>
        /\ geo.result.type \in SnapKinds \cap geo.snapModes
        /\ geo.result.distance2 = Dist2(geo.point, geo.result.point)
        /\ geo.result.type \in SnapKindsWithinTolerance
              => geo.result.distance2 < geo.tolerance * geo.tolerance
        /\ geo.result.type \in SnapKindsWithinTwice
              => geo.result.distance2 < 4 * geo.tolerance * geo.tolerance
        /\ geo.result.distance2 >= 4 * geo.tolerance * geo.tolerance
              => geo.result.type = "grid"

\* A tangent candidate is returned from farther away than the tolerance
C28_Witness ==
    /\ geo.fn = "findSnapPoints" /\ geo.result # Null
    /\ geo.result.type = "tangent"
    /\ geo.result.distance2 > geo.tolerance * geo.tolerance
    /\ Cardinality(geo.snapModes) > 1

----------------------------------------------------------------------------
(* mirrorEntity on arcs                                                     *)

\* The mirror lines: horizontal, vertical, and the two diagonals
ArcMirrorLines ==
    {<<Pt(0, 1), Pt(4, 1)>>, <<Pt(2, 0), Pt(2, 3)>>, <<Pt(0, 0), Pt(1, 1)>>, <<Pt(0, 4), Pt(4, 0)>>}

ArcMirrorCentres == {Pt(0, 0), Pt(2, 1)}

ArcMirrorRadius == 5

\* The arc entity at address 2 of a heap that holds its centre at address 1
InitMirrorArc ==
    /\ InitQTIdle
    /\ \E center \in ArcMirrorCentres, start \in 0..(TwoPi - 1), end \in 0..(TwoPi - 1),
          line \in ArcMirrorLines :
          /\ start # end
          /\ geo = [fn |-> "args",
                    heap |-> <<center, [type |-> "arc", center |-> 1, r |-> ArcMirrorRadius,
                                        start |-> start, end |-> end]>>,
                    lineP1 |-> line[1], lineP2 |-> line[2]]

\* The arc at an address of the heap, with its centre as a point
ArcAt(h, addr) ==
    [type |-> h[addr].type, center |-> PointOf(h, addr, "center"), r |-> h[addr].r,
     start |-> h[addr].start, end |-> h[addr].end]

CallMirrorArc ==
    /\ geo.fn = "args"
    /\ LET r == mirrorEntity(geo.heap, 2, geo.lineP1, geo.lineP2)
       IN  geo' = Returned(geo, "mirrorEntity", ArcAt(r.heap, r.addr))
                    @@ [entity |-> ArcAt(r.heap, 2)]
    /\ QTIdle

NextMirrorArc == CallMirrorArc

SpecMirrorArc == InitMirrorArc /\ [][NextMirrorArc]_vars

\* The points of the circle of an arc that lie on the axes through its centre
AxisPointsOf(arc) ==
    {Pt(arc.center.x + arc.r, arc.center.y), Pt(arc.center.x - arc.r, arc.center.y),
     Pt(arc.center.x, arc.center.y + arc.r), Pt(arc.center.x, arc.center.y - arc.r)}

\* C29 (as claimed): mirrorEntity applied to an arc returns the arc whose set of points
\* is the mirror image, across the line through lineP1 and lineP2, of the original
\* arc's set of points, for every direction of the mirror line: a point is on the
\* mirrored arc exactly when its mirror image is on the original arc.
C29_MirroredArcIsMirrorImage ==
    geo.fn = "mirrorEntity" =>
        /\ geo.result.type = "arc" /\ geo.result.r = geo.entity.r
        /\ geo.result.center = mirrorPoint(geo.entity.center, geo.lineP1, geo.lineP2)
        /\ \A q \in AxisPointsOf(geo.result) :
              /\ mirrorPoint(q, geo.lineP1, geo.lineP2) \in AxisPointsOf(geo.entity)
              /\ isPointOnArc(q, geo.result)
                    <=> isPointOnArc(mirrorPoint(q, geo.lineP1, geo.lineP2), geo.entity)

\* What holds of the code: the same, when the mirror line is horizontal
MirroredArcIsImageAcrossHorizontal ==
    (geo.fn = "mirrorEntity" /\ geo.lineP1.y = geo.lineP2.y) => C29_MirroredArcIsMirrorImage

\* The quarter arc from 0 to pi/2 about the origin mirrored across the vertical line
\* x = 2: the result runs from -pi/2 to 0 about (4,0), and (0,5) of the arc has its
\* mirror image (4,5) off the result
ArcMirroredAcrossVertical ==
    /\ geo.fn = "mirrorEntity"
    /\ geo.entity = [type |-> "arc", center |-> Pt(0, 0), r |-> 5, start |-> 0, end |-> 2]
    /\ geo.lineP1 = Pt(2, 0) /\ geo.lineP2 = Pt(2, 3)
    /\ geo.result = [type |-> "arc", center |-> Pt(4, 0), r |-> 5, start |-> -2, end |-> 0]
    /\ isPointOnArc(Pt(0, 5), geo.entity) /\ ~isPointOnArc(Pt(4, 5), geo.result)

----------------------------------------------------------------------------
(* Moving and hit-testing                                                   *)

\* The entities moved, each at the last address of a heap that holds its points before it
MoveHitHeaps ==
    { << Pt(0, 0), Pt(4, 0), [type |-> "line", p1 |-> 1, p2 |-> 2] >>,
      << Pt(-1, -2), Pt(2, 4), [type |-> "line", p1 |-> 1, p2 |-> 2] >>,
      << Pt(1, 0), [type |-> "circle", center |-> 1, r |-> 3] >>,
      << Pt(0, 0), [type |-> "arc", center |-> 1, r |-> 4, start |-> 0, end |-> 2] >>,
      << Pt(0, 0), [type |-> "arc", center |-> 1, r |-> 4, start |-> 6, end |-> 2] >>,
      << Pt(0, 0), Pt(2, 0), Pt(2, 4), [items |-> <<1, 2, 3>>], [type |-> "polyline", points |-> 4] >>,
      << Pt(-2, 1), [type |-> "text", position |-> 1, text |-> <<"a">>, height |-> 5] >>,
      << Pt(1, 3), [type |-> "point", position |-> 1] >>,
      << Pt(1, 1), [type |-> "donut", center |-> 1, innerRadius |-> 2, outerRadius |-> 3] >>,
      << Pt(0, 0), Pt(3, 3), Pt(5, 3), [items |-> <<1, 2, 3>>], [type |-> "leader", points |-> 4] >>,
      << Pt(0, 0), Pt(3, 3), [items |-> <<1, 2>>],
         [type |-> "leader", points |-> 3, text |-> <<"a", "b">>, height |-> 5] >>,
      << Pt(0, 0), Pt(4, 0), [type |-> "dimension", dimType |-> "linear", p1 |-> 1, p2 |-> 2] >>,
      << Pt(1, 0), [type |-> "dimension", dimType |-> "radius", center |-> 1, radius |-> 3] >> }

MoveHitDeltas == {Pt(1, 2), Pt(-3, 0), Pt(0, 10)}

\* The points tried on an entity; on an arc they lie on the axes and diagonals through
\* its centre
MoveHitPoints(entity) ==
    IF entity.type = "arc"
    THEN { Pt(entity.center.x + k * dx, entity.center.y + k * dy) :
              k \in 2..6, dx \in {-1, 0, 1}, dy \in {-1, 0, 1} }
    ELSE { Pt(x, y) : x \in -6..6, y \in -6..6 }

InitMoveHit ==
    /\ InitQTIdle
    /\ \E h \in MoveHitHeaps, delta \in MoveHitDeltas, tolerance \in HitTolerances :
          \E point \in MoveHitPoints(DeepValue(h, Len(h))) :
             geo = [fn |-> "args", heap |-> h, entity |-> DeepValue(h, Len(h)), delta |-> delta,
                    point |-> point, tolerance |-> tolerance]

\* moveEntity(entity, delta), with hitTest(point, entity, tolerance) before it and
\* hitTest(point + delta, moved, tolerance) after it
CallMoveThenHitTest ==
    /\ geo.fn = "args"
    /\ LET r == moveEntity(geo.heap, Len(geo.heap), geo.delta)
           moved == DeepValue(r.heap, r.addr)
       IN  geo' = Returned(geo, "moveEntity", moved)
                    @@ [hitBefore |-> hitTest(geo.point, geo.entity, geo.tolerance),
                        hitAfter |-> hitTest(Pt(geo.point.x + geo.delta.x, geo.point.y + geo.delta.y),
                                             moved, geo.tolerance)]
    /\ QTIdle

NextMoveHit == CallMoveThenHitTest

SpecMoveHit == InitMoveHit /\ [][NextMoveHit]_vars

\* C30 (as claimed): moving commutes with hit-testing: for every entity kind that hitTest
\* handles, every delta, point p and tolerance, hitTest(p + delta, moveEntity(e, delta),
\* tol) equals hitTest(p, e, tol).
C30_MoveCommutesWithHitTest ==
    geo.fn = "moveEntity" => geo.hitAfter = geo.hitBefore

\* The kinds among those modelled that moveEntity has a case for
MovedKinds == {"line", "circle", "arc", "polyline", "text", "point", "donut"}

\* What holds of the code: moving commutes with hit-testing on the kinds moveEntity moves
MoveCommutesOnMovedKinds ==
    (geo.fn = "moveEntity" /\ geo.entity.type \in MovedKinds) =>
        /\ geo.hitAfter = geo.hitBefore
        /\ geo.result # geo.entity

\* A linear dimension is returned where it was: the point on it is hit before the move
\* and the moved point is not hit after it
DimensionNotMoved ==
    /\ geo.fn = "moveEntity" /\ geo.entity.type = "dimension" /\ geo.entity.dimType = "linear"
    /\ geo.point = Pt(2, 0) /\ geo.delta = Pt(0, 10) /\ geo.tolerance = 1
    /\ geo.result = geo.entity
    /\ geo.hitBefore /\ ~geo.hitAfter

====
